---- MODULE Spec2Model ----
(***************************************************************************)
(* A model of the ep-docs document-analysis pipeline.  Every stage is an   *)
(* independent batch script; each gets its own group of variables, its own *)
(* initial predicate and next-state relation, and its own specification.   *)
(* While one stage runs, the variables of the other stages stay idle.      *)
(***************************************************************************)
EXTENDS Integers, Sequences, FiniteSets, TLC

VARIABLES
    \* generate_network.py : main
    net_pc,            \* position in main: "loaded", "counted", "edges", "done",
                       \* or "crashed" when main raised
    file_persons,      \* the loaded file -> person-set map, as a sequence of sets
    person_counts,     \* person -> number of files it appears in
    edge_weights,      \* (p1, p2) -> number of co-occurrences
    edges_filtered,    \* the pairs kept for the graph
    nodes_in_network,  \* the endpoints of the kept pairs
    graph,             \* the networkx graph G: node -> appearances, edge -> weight
    network_edges_csv, \* network_edges_spacy.csv as main writes it
    network_nodes_csv, \* network_nodes_spacy.csv as main writes it
    \* check_txt_files.py : classify_file, analyze_subfolders
    chk_pc,            \* "file", "classified", "scan", "report"
    chk_file,          \* the file classify_file is called on
    chk_label,         \* what classify_file returned
    chk_dirs_seen,     \* directories analyze_subfolders has visited
    chk_results,       \* the rows analyze_subfolders has produced
    \* extract_names.py : process_file, main
    xn_pc,             \* "file", "processed", "start", "nofiles", "submitting", "pool", "saved"
    xn_file,           \* the file process_file is called on
    xn_result,         \* what process_file returned
    txt_files,         \* main's list of .txt files
    cpu_count,         \* multiprocessing.cpu_count()
    num_workers,       \* the size of the process pool
    futures,           \* the submitted tasks: file, state, result
    xn_running,        \* worker -> the task it runs, 0 when idle
    xn_file_persons,   \* main's file_persons: file -> person list
    xn_order,          \* the keys of file_persons in insertion order
    completed,         \* main's completed counter
    extracted_names_json,  \* the map written to OUTPUT_FILE
    \* preprocess_browser_data.py : load_alias_mapping, generate_person_index
    pre_pc,            \* "start", "loaded", "indexed", "persons", "timeline",
                       \* or "crashed" when main raised
    alias_csv,         \* alias_mapping.csv: whether it exists, and its rows
    nodes,             \* load_network_nodes(): name -> appearances, in order
    alias_to_canonical,   \* alias -> canonical name
    canonical_aliases, \* canonical name -> its aliases, in insertion order
    person_index,      \* what generate_person_index returned
    input_files,       \* the input files that exist, alias_mapping.csv aside
    pre_warnings,      \* the files reported as not found
    pre_outputs,       \* the output files written, person files and the
                       \* year files of the timeline aside
    person_files,      \* the person files written: file name -> the person
                       \* whose data the file holds
    person_count,      \* main's count of generated person files
    person_year_csv,   \* the rows of cross_entity_output/person_year_links.csv
    person_gantt,      \* data/timeline/person_gantt.json as written
    all_quotes_csv,    \* the rows of all_quotes.csv as the preprocessor reads it
    quotes_by_speaker, \* what the preprocessor's load_quotes returned
    year_counts_csv,   \* the rows of timeline_extraction_output/year_counts.csv
    all_dates_csv,     \* the rows of timeline_extraction_output/all_dates.csv
    year_index,        \* data/timeline/year_index.json as written
    year_files,        \* data/timeline/events/<year>.json as written, by year
    events_index,      \* data/timeline/events_index.json as written
    \* preprocess_browser_data.py : generate_map_data
    geo_pc,            \* "start", "returned", "loop", "outputs", "done"
    GEOPY_AVAILABLE,   \* whether geopy could be imported
    locations_exists,  \* whether all_locations.csv exists
    SKIP_GEOCODING,    \* the environment variable, '' when it is not set
    skip_geocoding,    \* SKIP_GEOCODING is '1', 'true' or 'yes'
    geo_world,         \* how the geocoder answers for each location
    loc_key,           \* location name -> its lower-cased cache key
    cache_file,        \* geocode_cache.json on disk
    cache_before,      \* geocode_cache.json as it was when the run began
    geocode_cache,     \* the cache in memory
    geo_i,             \* the position of the loop in sorted_locs
    geocoded_count,
    failed_count,
    geo_queries,       \* location -> geocoder calls made for it, by form
    geo_log,           \* the lines the geocoding loop has printed
    geocoded_locations,  \* the locations written to locations.json
    \* serve.py
    srv_pc,            \* "listening", "handling", "handled"
    quotes_csv,        \* quote_attribution_output/all_quotes.csv
    index_file,        \* data/person_index.json
    viewer_exists,     \* whether network_viewer.html is in the served directory
    quotes_cache,      \* _quotes_cache
    srv_opens,         \* how often the process has opened the quotes CSV
    srv_request,       \* the request being handled
    srv_response,      \* what was sent back for it
    srv_handled,       \* requests handled so far
    \* download_epstein_pdfs.py : main, download_from_saved
    dl_pc,             \* where main is: a stage of Reading while
                       \* safe_read_html runs, the stage's entry of ReturnsTo
                       \* once it has returned, "subpages", "links",
                       \* "data_sets" or "pages" at the head of a loop,
                       \* "scraped", "confirm", "saved", "returned", "loop",
                       \* "done", "cancelled", or "crashed" and
                       \* "main_crashed" when the download or main raised
    urls_json,         \* pdf_urls.json: whether it exists and its "all" list
    site,              \* the pages of the web site: URL -> the page's links
    flaky,             \* the URLs whose requests may end in any way
    sr_url,            \* safe_read_html's argument url
    sr_attempt,        \* safe_read_html's loop counter i
    main_page,         \* what safe_read_html returned
    subpages,          \* scrape_court_records' subpages yet to be looked at
    sub_links,         \* the links of its subpage yet to be looked at
    court_pdfs,        \* what scrape_court_records returned
    doj_pdfs,          \* what scrape_doj_disclosures returned
    foia_links,        \* what scrape_foia returned
    http_log,          \* the requests.get calls made, in order, with their ends
    disk,              \* the files and directories below OUTPUT_DIR
    pdf_links,         \* download_all_pdfs' list
    dl_i,              \* its loop counter i
    dl_counts,         \* success_count, skip_count and fail_count
    dl_log,            \* the download_pdf calls of the run, in order
    dl_run,            \* how often the script has been started
    dl_returned,       \* what download_all_pdfs returned, run by run
    \* sentiment_analysis.py : analyze_sentiment
    sa_pc,             \* "called", "chunks", "returned", or "crashed"
    sa_text,           \* the argument text
    max_chunks,        \* the argument max_chunks
    chunk_size,        \* the argument chunk_size
    sa_words,          \* words
    num_chunks,        \* num_chunks
    sa_step,           \* step
    sa_i,              \* the loop counter i
    sa_chunks,         \* the chunks handed to the analyzer, in order
    sa_result,         \* what analyze_sentiment returned
    \* download_epstein_pdfs.py : scrape_doj_disclosures
    dj_pc,             \* "main", "data_sets", "pages", or "returned"
    all_pdf_links,     \* all_pdf_links of the scrape that runs
    visited_pages,     \* its visited_pages
    ds_i,              \* the loop counter i of the data sets
    page_num,          \* page_num
    dj_fetches         \* the safe_read_html calls so far: the URL, and how
                       \* many links not yet collected the page held

netVars == <<net_pc, file_persons, person_counts, edge_weights,
             edges_filtered, nodes_in_network, graph, network_edges_csv,
             network_nodes_csv>>

chkVars == <<chk_pc, chk_file, chk_label, chk_dirs_seen, chk_results>>

xnVars == <<xn_pc, xn_file, xn_result, txt_files, cpu_count, num_workers,
            futures, xn_running, xn_file_persons, xn_order, completed,
            extracted_names_json>>

preVars == <<pre_pc, alias_csv, nodes, alias_to_canonical, canonical_aliases,
             person_index, input_files, pre_warnings, pre_outputs, person_files,
             person_count, person_year_csv, person_gantt, all_quotes_csv,
             quotes_by_speaker, year_counts_csv, all_dates_csv, year_index,
             year_files, events_index>>

geoVars == <<geo_pc, GEOPY_AVAILABLE, locations_exists, SKIP_GEOCODING,
            skip_geocoding, geo_world, loc_key, cache_file, cache_before,
            geocode_cache, geo_i, geocoded_count, failed_count, geo_queries,
             geo_log, geocoded_locations>>

\* The preprocessor's variables other than the alias file on disk.
preRun == <<pre_pc, nodes, alias_to_canonical, canonical_aliases, person_index,
            input_files, pre_warnings, pre_outputs, person_files,
             person_count, person_year_csv, person_gantt, all_quotes_csv,
             quotes_by_speaker, year_counts_csv, all_dates_csv, year_index,
             year_files, events_index>>

srvVars == <<srv_pc, quotes_csv, index_file, viewer_exists, quotes_cache, srv_opens,
             srv_request, srv_response, srv_handled>>

dlVars == <<dl_pc, urls_json, site, flaky, sr_url, sr_attempt, main_page,
            subpages, sub_links, court_pdfs, doj_pdfs, foia_links, http_log,
            disk, pdf_links, dl_i, dl_counts, dl_log, dl_run, dl_returned>>

saVars == <<sa_pc, sa_text, max_chunks, chunk_size, sa_words, num_chunks,
            sa_step, sa_i, sa_chunks, sa_result>>

djVars == <<dj_pc, all_pdf_links, visited_pages, ds_i, page_num, dj_fetches>>

vars == <<netVars, chkVars, xnVars, preVars, geoVars, srvVars, dlVars, saVars,
          djVars>>

(***************************************************************************)
(* generate_network.py                                                     *)
(***************************************************************************)

\* Person names; sorted() orders them as the integers are ordered.
Persons == {1, 2, 3}

MaxFiles == 8

MIN_APPEARANCES == 5
MIN_EDGE_WEIGHT == 3

\* A defaultdict(int) read: a missing key counts 0.
DictGet(d, k) == IF k \in DOMAIN d THEN d[k] ELSE 0

\* d[k] += 1 on a defaultdict(int), for every k of ks.
DictIncr(d, ks) ==
    [k \in (DOMAIN d) \cup ks |-> DictGet(d, k) + (IF k \in ks THEN 1 ELSE 0)]

\* Lines 52-55: count the files each person occurs in, file by file.
RECURSIVE CountPersons(_, _, _)
CountPersons(fp, i, counts) ==
    IF i > Len(fp) THEN counts
    ELSE CountPersons(fp, i + 1, DictIncr(counts, fp[i]))

\* Line 60.
FrequentPersons(counts) ==
    {p \in DOMAIN counts : counts[p] >= MIN_APPEARANCES}

\* A faulty variant: permutations instead of combinations of the sorted list.
SortedPairsMut(S) == {pr \in S \X S : pr[1] # pr[2]}
\* combinations(sorted(persons_in_file), 2): the pairs in sorted order.
SortedPairs(S) == {pr \in S \X S : pr[1] < pr[2]}

\* Lines 67-74: one file's contribution to edge_weights.
FileEdges(persons, frequent, weights) ==
    LET persons_in_file == persons \cap frequent
    IN  IF Cardinality(persons_in_file) >= 2
        THEN DictIncr(weights, SortedPairs(persons_in_file))
        ELSE weights

RECURSIVE BuildEdges(_, _, _, _)
BuildEdges(fp, i, frequent, weights) ==
    IF i > Len(fp) THEN weights
    ELSE BuildEdges(fp, i + 1, frequent, FileEdges(fp[i], frequent, weights))

\* Line 92.
FilterEdges(weights) ==
    {pr \in DOMAIN weights : weights[pr] >= MIN_EDGE_WEIGHT}

\* Line 96.
NodesOf(edges) == {pr[1] : pr \in edges} \cup {pr[2] : pr \in edges}

EmptyDict == [k \in {} |-> 0]

\* The person sets of the files of extracted_names.json, numbered: set r
\* holds person p when bit p - 1 of r is set.
FilePersonSet(r) == {p \in Persons : (r \div (2 ^ (p - 1))) % 2 = 1}
NumPersonSets == 2 ^ Cardinality(Persons)

\* The lists of n files, the files with the same person set next to each
\* other: main reads the map file by file and keeps sets, counters and a
\* graph, none of which depends on the order of the files.
RECURSIVE GroupedFiles(_, _)
GroupedFiles(n, top) ==
    IF n = 0 THEN {<<>>}
    ELSE UNION {{Append(fp, FilePersonSet(r)) : fp \in GroupedFiles(n - 1, r)} :
                   r \in 0..top}

NetInputs == UNION {GroupedFiles(n, NumPersonSets - 1) : n \in 0..MaxFiles}

NoGraph == [nodes |-> EmptyDict, edges |-> EmptyDict]

\* A CSV file that main has not written, and one with its rows.  The order
\* of the rows is left out.
NotWritten == [written |-> FALSE, rows |-> {}]
Written(rows) == [written |-> TRUE, rows |-> rows]

\* Lines 81-84 and 204: edges_df, one row per counted pair.
EdgeRows(weights) ==
    {[from |-> pr[1], to |-> pr[2], weight |-> weights[pr]] : pr \in DOMAIN weights}

\* Lines 99-102 and 205: nodes_df, one row per endpoint of a kept pair.
NodeRowsOf(names, counts) ==
    {[name |-> p, appearances |-> counts[p]] : p \in names}

NetInit ==
    /\ net_pc = "loaded"
    /\ file_persons \in NetInputs
    /\ person_counts = EmptyDict
    /\ edge_weights = EmptyDict
    /\ edges_filtered = {}
    /\ nodes_in_network = {}
    /\ graph = NoGraph
    /\ network_edges_csv = NotWritten
    /\ network_nodes_csv = NotWritten

NetIdle ==
    /\ net_pc = "idle"
    /\ file_persons = <<>>
    /\ person_counts = EmptyDict
    /\ edge_weights = EmptyDict
    /\ edges_filtered = {}
    /\ nodes_in_network = {}
    /\ graph = NoGraph
    /\ network_edges_csv = NotWritten
    /\ network_nodes_csv = NotWritten

\* Lines 51-55.
NetCount ==
    /\ net_pc = "loaded"
    /\ person_counts' = CountPersons(file_persons, 1, EmptyDict)
    /\ net_pc' = "counted"
    /\ UNCHANGED <<file_persons, edge_weights, edges_filtered, nodes_in_network, graph,
                   network_edges_csv, network_nodes_csv>>

\* Lines 59-74.
NetEdges ==
    /\ net_pc = "counted"
    /\ edge_weights' = BuildEdges(file_persons, 1,
                                  FrequentPersons(person_counts), EmptyDict)
    /\ net_pc' = "edges"
    /\ UNCHANGED <<file_persons, person_counts, edges_filtered, nodes_in_network, graph,
                   network_edges_csv, network_nodes_csv>>

\* Lines 99-112: the graph of the kept pairs, every node with its
\* appearances and every edge with its weight.
BuildGraphMut(edges, counts, weights) ==
    [nodes |-> [p \in DOMAIN counts |-> counts[p]],
     edges |-> [pr \in edges |-> weights[pr]]]
BuildGraph(edges, counts, weights) ==
    [nodes |-> [p \in NodesOf(edges) |-> counts[p]],
     edges |-> [pr \in edges |-> weights[pr]]]

\* Lines 79-207.  Nothing is built or written when edge_weights is empty;
\* when no pair reaches MIN_EDGE_WEIGHT, nodes_df is a frame without columns
\* and sorting it by 'appearances' (line 102) raises.  Lines 204-205 write
\* edges_df and nodes_df.
NetFilter ==
    /\ net_pc = "edges"
    /\ IF DOMAIN edge_weights = {}
       THEN /\ net_pc' = "done"
            /\ UNCHANGED <<edges_filtered, nodes_in_network, graph,
                           network_edges_csv, network_nodes_csv>>
       ELSE /\ edges_filtered' = FilterEdges(edge_weights)
            /\ nodes_in_network' = NodesOf(FilterEdges(edge_weights))
            /\ IF FilterEdges(edge_weights) = {}
               THEN /\ net_pc' = "crashed"
                    /\ UNCHANGED <<graph, network_edges_csv, network_nodes_csv>>
               ELSE /\ net_pc' = "done"
                    /\ graph' = BuildGraph(FilterEdges(edge_weights),
                                           person_counts, edge_weights)
                    /\ network_edges_csv' = Written(EdgeRows(edge_weights))
                    /\ network_nodes_csv' =
                          Written(NodeRowsOf(nodes_in_network', person_counts))
    /\ UNCHANGED <<file_persons, person_counts, edge_weights>>

(***************************************************************************)
(* check_txt_files.py                                                      *)
(***************************************************************************)

\* The bytes files are made of: 'A', space, vertical tab (0x0B), the lead
\* byte 0xC2 and the continuation byte 0xA0 (together U+00A0), and 0xFF,
\* which no UTF-8 sequence contains.
ByteAlphabet == {65, 32, 11, 194, 160, 255}

MaxContentLen == 3

Contents == UNION {[1..n -> ByteAlphabet] : n \in 0..MaxContentLen}

\* A file on disk: its bytes, and whether reading it succeeds (a directory
\* named x.txt or a file without read permission raises on read).
Files == [bytes : Contents, readable : BOOLEAN]

\* bytes.decode("utf-8", errors="ignore") for bytes below 0xE0: an ASCII byte
\* is its own code point, a lead byte 0xC2..0xDF followed by a continuation
\* byte 0x80..0xBF is one two-byte code point, and every other byte is
\* invalid and dropped on its own.
RECURSIVE Decode(_, _)
Decode(b, i) ==
    IF i > Len(b) THEN <<>>
    ELSE IF b[i] < 128 THEN <<b[i]>> \o Decode(b, i + 1)
    ELSE IF /\ b[i] \in 194..223
            /\ i + 1 <= Len(b)
            /\ b[i + 1] \in 128..191
         THEN <<(b[i] - 192) * 64 + (b[i + 1] - 128)>> \o Decode(b, i + 2)
    ELSE Decode(b, i + 1)

\* str.isspace() for code points below U+0800.
IsSpace(c) == c \in (9..13) \cup (28..32) \cup {133, 160}

RECURSIVE LStrip(_)
LStrip(text) ==
    IF text # <<>> /\ IsSpace(Head(text)) THEN LStrip(Tail(text)) ELSE text

RECURSIVE RStrip(_)
RStrip(text) ==
    IF text # <<>> /\ IsSpace(text[Len(text)])
    THEN RStrip(SubSeq(text, 1, Len(text) - 1))
    ELSE text

\* str.strip()
Strip(text) == RStrip(LStrip(text))

\* Lines 18-26.  A failing read returns True.
is_empty(f) ==
    IF ~f.readable THEN TRUE
    ELSE IF Len(f.bytes) = 0 THEN TRUE
    ELSE Strip(Decode(f.bytes, 1)) = <<>>

\* Line 41.
IsPrintable(b) == (32 <= b /\ b <= 126) \/ b \in {9, 10, 13}

PrintableCount(b) == Cardinality({i \in 1..Len(b) : IsPrintable(b[i])})

\* Lines 46-47: (total - printable) / total > 0.30, in integers.
NonPrintableOver30(b) ==
    Len(b) > 0 /\ 10 * (Len(b) - PrintableCount(b)) > 3 * Len(b)

\* Line 57: re.search(r"(.)\1{50,}", text): a character other than a
\* newline followed by at least 50 repetitions of itself.
REPEAT_MIN == 50
HasLongRepeat(text) ==
    \E i \in 1..Len(text) :
        /\ i + REPEAT_MIN <= Len(text)
        /\ text[i] # 10
        /\ \A k \in 1..REPEAT_MIN : text[i + k] = text[i]

\* Lines 61-64.
DIVERSITY_MIN_LEN == 100
DIVERSITY_MIN_CHARS == 5
LowDiversity(text) ==
    /\ Len(text) > DIVERSITY_MIN_LEN
    /\ Cardinality({text[i] : i \in 1..Len(text)}) < DIVERSITY_MIN_CHARS

\* Lines 67-71: text.split() yields the maximal runs of non-space characters.
WORDS_MIN == 10
AVG_WORD_MAX == 50
WordCount(text) ==
    Cardinality({i \in 1..Len(text) :
        ~IsSpace(text[i]) /\ (i = 1 \/ IsSpace(text[i - 1]))})
WordChars(text) == Cardinality({i \in 1..Len(text) : ~IsSpace(text[i])})
LongWords(text) ==
    /\ WordCount(text) > WORDS_MIN
    /\ WordChars(text) > AVG_WORD_MAX * WordCount(text)

\* Lines 29-73.  A failing read returns False.
is_garbage(f) ==
    IF ~f.readable THEN FALSE
    ELSE IF Len(f.bytes) = 0 THEN FALSE
    ELSE IF NonPrintableOver30(f.bytes) THEN TRUE
    ELSE LET text == Decode(f.bytes, 1)
         IN  HasLongRepeat(text) \/ LowDiversity(text) \/ LongWords(text)

\* A faulty variant: the garbage test runs before the empty test.
classify_file_mut(f) ==
    IF is_garbage(f) THEN "garbage"
    ELSE IF is_empty(f) THEN "empty"
    ELSE "real_text"
\* Lines 76-83.
classify_file(f) ==
    IF is_empty(f) THEN "empty"
    ELSE IF is_garbage(f) THEN "garbage"
    ELSE "real_text"

\* The files analyze_subfolders meets in a directory: one of each kind.
SampleFiles ==
    { [bytes |-> <<>>, readable |-> TRUE],
      [bytes |-> <<65, 32, 65>>, readable |-> TRUE],
      [bytes |-> <<65, 255>>, readable |-> TRUE],
      [bytes |-> <<65, 65>>, readable |-> FALSE] }

MaxTxtFiles == 3
MaxDirs == 2

\* The listings glob("*.txt") + glob("*.TXT") can return for one directory.
Listings == UNION {[1..n -> SampleFiles] : n \in 0..MaxTxtFiles}

\* list.count(label)
CountOf(classifications, label) ==
    Cardinality({i \in 1..Len(classifications) : classifications[i] = label})

\* Lines 102-126, without the folder name and the rounded percentages.
DirRow(dir_files) ==
    LET classifications == [i \in 1..Len(dir_files) |-> classify_file(dir_files[i])]
    IN  [ total_files     |-> Len(classifications),
          real_text_count |-> CountOf(classifications, "real_text"),
          empty_count     |-> CountOf(classifications, "empty"),
          garbage_count   |-> CountOf(classifications, "garbage") ]

NoFile == [bytes |-> <<>>, readable |-> FALSE]

\* classify_file is called on one file.
ChkInitFile ==
    /\ chk_pc = "file"
    /\ chk_file \in Files
    /\ chk_label = "none"
    /\ chk_dirs_seen = 0
    /\ chk_results = <<>>

\* analyze_subfolders starts on a tree.
ChkInitTree ==
    /\ chk_pc = "scan"
    /\ chk_file = NoFile
    /\ chk_label = "none"
    /\ chk_dirs_seen = 0
    /\ chk_results = <<>>

ChkInit == ChkInitFile \/ ChkInitTree

ChkIdle ==
    /\ chk_pc = "idle"
    /\ chk_file = NoFile
    /\ chk_label = "none"
    /\ chk_dirs_seen = 0
    /\ chk_results = <<>>

\* Lines 76-83.
ChkClassify ==
    /\ chk_pc = "file"
    /\ chk_label' = classify_file(chk_file)
    /\ chk_pc' = "classified"
    /\ UNCHANGED <<chk_file, chk_dirs_seen, chk_results>>

\* Lines 94-126: one iteration of the loop over the directories; a directory
\* without .txt files adds no row.
ChkAnalyzeDir ==
    /\ chk_pc = "scan"
    /\ chk_dirs_seen < MaxDirs
    /\ \E dir_files \in Listings :
          chk_results' = IF dir_files = <<>> THEN chk_results
                         ELSE Append(chk_results, DirRow(dir_files))
    /\ chk_dirs_seen' = chk_dirs_seen + 1
    /\ UNCHANGED <<chk_pc, chk_file, chk_label>>

\* Line 128: the loop is over.
ChkReturn ==
    /\ chk_pc = "scan"
    /\ chk_pc' = "report"
    /\ UNCHANGED <<chk_file, chk_label, chk_dirs_seen, chk_results>>


(***************************************************************************)
(* extract_names.py                                                        *)
(***************************************************************************)

\* Strings are sequences of code points.

\* str.upper() and str.lower() on ASCII and on two lower-case letters whose
\* upper case is two letters: U+00DF (sharp s) gives "SS" and U+FB01 (the
\* ligature fi) gives "FI"; both are their own lower case.
SHARP_S == 223
LIGATURE_FI == 64257
UpperChar(c) ==
    IF c \in 97..122 THEN <<c - 32>>
    ELSE IF c = SHARP_S THEN <<83, 83>>
    ELSE IF c = LIGATURE_FI THEN <<70, 73>>
    ELSE <<c>>
LowerChar(c) == IF c \in 65..90 THEN c + 32 ELSE c
RECURSIVE Upper(_)
Upper(s) == IF s = <<>> THEN <<>> ELSE UpperChar(Head(s)) \o Upper(Tail(s))
Lower(s) == [i \in 1..Len(s) |-> LowerChar(s[i])]

\* str.isupper(): at least one cased character and no lower-case one.
IsLowerChar(c) == c \in 97..122 \/ c \in {SHARP_S, LIGATURE_FI}
IsUpper(s) ==
    /\ \E i \in 1..Len(s) : s[i] \in 65..90
    /\ \A i \in 1..Len(s) : ~IsLowerChar(s[i])

\* any(c.isdigit() for c in s)
HasDigit(s) == \E i \in 1..Len(s) : s[i] \in 48..57

\* sub in s
Contains(s, sub) ==
    \E i \in 0..(Len(s) - Len(sub)) :
        \A k \in 1..Len(sub) : s[i + k] = sub[k]

\* s.endswith(suffix)
EndsWith(s, suffix) ==
    /\ Len(s) >= Len(suffix)
    /\ SubSeq(s, Len(s) - Len(suffix) + 1, Len(s)) = suffix

\* ' '.join(s.split()): runs of whitespace become one space, none at the ends.
RECURSIVE SquashSpaces(_)
SquashSpaces(s) ==
    IF s = <<>> THEN <<>>
    ELSE IF IsSpace(Head(s))
         THEN LET rest == LStrip(s)
              IN  IF rest = <<>> THEN <<>> ELSE <<32>> \o SquashSpaces(rest)
    ELSE <<Head(s)>> \o SquashSpaces(Tail(s))
JoinSplit(s) == SquashSpaces(LStrip(s))

\* A faulty variant: a list append instead of set.add.
SetAddMut(set, x) == Append(set, x)
\* set.add on a set kept as a duplicate-free sequence.
SetAdd(set, x) ==
    IF \E i \in 1..Len(set) : set[i] = x THEN set ELSE Append(set, x)

NAME_MIN_LEN == 5
NAME_MAX_LEN == 50

\* Lines 47-55: what extract_persons keeps of the PERSON entities the NER
\* model reports, in the order it reports them.
RECURSIVE extract_persons(_, _, _)
extract_persons(ents, i, persons) ==
    IF i > Len(ents) THEN persons
    ELSE LET name == Strip(ents[i])
         IN  IF Contains(name, <<32>>) /\ Len(name) >= NAME_MIN_LEN
             THEN extract_persons(ents, i + 1, SetAdd(persons, JoinSplit(name)))
             ELSE extract_persons(ents, i + 1, persons)

\* Lines 62-69.
normalize_name(name) ==
    IF EndsWith(name, <<39, 115>>) THEN Strip(SubSeq(name, 1, Len(name) - 2))
    ELSE IF EndsWith(name, <<39>>) THEN Strip(SubSeq(name, 1, Len(name) - 1))
    ELSE Strip(name)

\* Lines 77-85.
exclude_keywords ==
    { <<99, 111, 117, 110, 116, 121>>,   \* county
      <<99, 105, 116, 121>>,   \* city
      <<115, 116, 97, 116, 101>>,   \* state
      <<99, 111, 117, 114, 116>>,   \* court
      <<100, 105, 115, 116, 114, 105, 99, 116>>,   \* district
      <<117, 110, 105, 118, 101, 114, 115, 105, 116, 121>>,   \* university
      <<99, 111, 108, 108, 101, 103, 101>>,   \* college
      <<115, 99, 104, 111, 111, 108>>,   \* school
      <<104, 111, 115, 112, 105, 116, 97, 108>>,   \* hospital
      <<98, 97, 110, 107>>,   \* bank
      <<99, 111, 109, 112, 97, 110, 121>>,   \* company
      <<99, 111, 114, 112>>,   \* corp
      <<105, 110, 99>>,   \* inc
      <<108, 108, 99>>,   \* llc
      <<108, 116, 100>>,   \* ltd
      <<102, 111, 117, 110, 100, 97, 116, 105, 111, 110>>,   \* foundation
      <<105, 110, 115, 116, 105, 116, 117, 116, 101>>,   \* institute
      <<99, 101, 110, 116, 101, 114>>,   \* center
      <<100, 101, 112, 97, 114, 116, 109, 101, 110, 116>>,   \* department
      <<111, 102, 102, 105, 99, 101>>,   \* office
      <<98, 117, 114, 101, 97, 117>>,   \* bureau
      <<97, 103, 101, 110, 99, 121>>,   \* agency
      <<99, 111, 109, 109, 105, 116, 116, 101, 101>>,   \* committee
      <<97, 105, 114, 112, 111, 114, 116>>,   \* airport
      <<115, 116, 114, 101, 101, 116>>,   \* street
      <<97, 118, 101, 110, 117, 101>>,   \* avenue
      <<98, 111, 117, 108, 101, 118, 97, 114, 100>>,   \* boulevard
      <<114, 111, 97, 100>>,   \* road
      <<100, 114, 105, 118, 101>>,   \* drive
      <<105, 115, 108, 97, 110, 100>>,   \* island
      <<98, 101, 97, 99, 104>>,   \* beach
      <<112, 97, 114, 107>>,   \* park
      <<108, 97, 107, 101>>,   \* lake
      <<114, 105, 118, 101, 114>>,   \* river
      <<109, 111, 117, 110, 116, 97, 105, 110>>,   \* mountain
      <<97, 109, 101, 110, 100, 109, 101, 110, 116>>,   \* amendment
      <<99, 105, 114, 99, 117, 105, 116>>,   \* circuit
      <<97, 105, 114, 108, 105, 110, 101, 115>>,   \* airlines
      <<97, 105, 114, 119, 97, 121, 115>>,   \* airways
      <<104, 111, 116, 101, 108>> }   \* hotel

\* Lines 91-106: whether a normalized name is kept.
KeepName(name) ==
    /\ ~\E kw \in exclude_keywords : Contains(Lower(name), kw)
    /\ ~IsUpper(name)
    /\ ~HasDigit(name)
    /\ ~(Len(name) > NAME_MAX_LEN)
    /\ ~(Len(name) < NAME_MIN_LEN \/ ~Contains(name, <<32>>))

\* Lines 72-109.
RECURSIVE filter_persons(_, _, _)
filter_persons(persons, i, filtered) ==
    IF i > Len(persons) THEN filtered
    ELSE LET name == normalize_name(persons[i])
         IN  IF KeepName(name)
             THEN filter_persons(persons, i + 1, SetAdd(filtered, Upper(name)))
             ELSE filter_persons(persons, i + 1, filtered)

\* list(set(items)): the distinct items in any order.
ListOfSet(items) ==
    LET S == {items[i] : i \in 1..Len(items)}
    IN  {order \in [1..Cardinality(S) -> S] :
            \A i, j \in 1..Cardinality(S) : i # j => order[i] # order[j]}

\* list(s) of a set s, kept as the sequence of its members: the members in
\* any order, the order of a set of strings being that of their hashes.
AnyOrder(members) ==
    {[i \in 1..Len(members) |-> members[at[i]]] :
        at \in {f \in [1..Len(members) -> 1..Len(members)] :
                  \A i, j \in 1..Len(members) : i # j => f[i] # f[j]}}

\* What process_file returns: (path, persons) or None.
NoResult == [some |-> FALSE, persons |-> <<>>]
SomeResult(persons) == [some |-> TRUE, persons |-> persons]

\* Lines 112-123: the results process_file can return.  A text file is the
\* PERSON entities the NER model finds in it; reading a file that is not
\* readable raises inside the try.  persons is a set, and list(persons) of
\* line 120 lists it in any order.
process_file(txt_file) ==
    IF ~txt_file.readable THEN {NoResult}
    ELSE LET persons == filter_persons(extract_persons(txt_file.ents, 1, <<>>), 1, <<>>)
         IN  IF persons # <<>>
             THEN {SomeResult(order) : order \in AnyOrder(persons)}
             ELSE {NoResult}

\* The PERSON entities of the model: a stem, then nothing, "'s" or "'".
EntStems ==
    { <<65, 108, 32, 66, 111>>,   \* "Al Bo"
      <<97, 108, 32, 98, 111>>,   \* "al bo"
      <<65, 76, 32, 66, 79>>,   \* "AL BO"
      <<65, 108, 32, 32, 66, 111>>,   \* "Al  Bo"
      <<67, 121, 32, 68, 105>>,   \* "Cy Di"
      <<65, 108, 32, 66, 49>>,   \* "Al B1"
      <<65, 108, 32, 73, 110, 99>>,   \* "Al Inc"
      <<65, 108, 32, 66>>,   \* "Al B"
      <<65, 108, 98, 111>>,   \* "Albo"
      <<65, 108, 32, 79, 102, 64257, 99, 101>> }   \* "Al Of(fi)ce", fi one letter

EntSuffixes == { <<>>, <<39, 115>>, <<39>> }

EntTexts == {st \o su : st \in EntStems, su \in EntSuffixes}

MaxEnts == 2

EntLists == UNION {[1..n -> EntTexts] : n \in 0..MaxEnts}

TextFiles == [ents : EntLists, readable : BOOLEAN]

\* The files of the tree the pool run works on: one with two persons, one
\* of them mentioned twice, one whose only mention does not survive the
\* filter, and one that cannot be read.
PoolFiles ==
    { [ents |-> << <<65, 108, 32, 66, 111>>,                    \* "Al Bo"
                   <<97, 108, 32, 98, 111, 39, 115>>,           \* "al bo's"
                   <<67, 121, 32, 68, 105>> >>,                 \* "Cy Di"
       readable |-> TRUE],
      [ents |-> << <<65, 76, 32, 66, 79>> >>,                   \* "AL BO"
       readable |-> TRUE],
      [ents |-> <<>>, readable |-> FALSE] }

MaxPoolFiles == 3
MaxCpus == 2

Min(a, b) == IF a < b THEN a ELSE b

NoTextFile == [ents |-> <<>>, readable |-> FALSE]

\* process_file is called on one file.
XnInitFile ==
    /\ xn_pc = "file"
    /\ xn_file \in TextFiles
    /\ xn_result = NoResult
    /\ txt_files = <<>>
    /\ cpu_count = 1
    /\ num_workers = 0
    /\ futures = <<>>
    /\ xn_running = <<>>
    /\ xn_file_persons = <<>>
    /\ xn_order = <<>>
    /\ completed = 0
    /\ extracted_names_json = <<>>

\* main starts on a tree of .txt files (line 131).
XnInitMain ==
    /\ xn_pc = "start"
    /\ xn_file = NoTextFile
    /\ xn_result = NoResult
    /\ txt_files \in UNION {[1..n -> PoolFiles] : n \in 0..MaxPoolFiles}
    /\ cpu_count \in 1..MaxCpus
    /\ num_workers = 0
    /\ futures = <<>>
    /\ xn_running = <<>>
    /\ xn_file_persons = <<>>
    /\ xn_order = <<>>
    /\ completed = 0
    /\ extracted_names_json = <<>>

XnInit == XnInitFile \/ XnInitMain

XnIdle ==
    /\ xn_pc = "idle"
    /\ xn_file = NoTextFile
    /\ xn_result = NoResult
    /\ txt_files = <<>>
    /\ cpu_count = 1
    /\ num_workers = 0
    /\ futures = <<>>
    /\ xn_running = <<>>
    /\ xn_file_persons = <<>>
    /\ xn_order = <<>>
    /\ completed = 0
    /\ extracted_names_json = <<>>

\* Lines 112-123.
XnProcessFile ==
    /\ xn_pc = "file"
    /\ xn_result' \in process_file(xn_file)
    /\ xn_pc' = "processed"
    /\ UNCHANGED <<xn_file, txt_files, cpu_count, num_workers, futures,
                   xn_running, xn_file_persons, xn_order, completed,
                   extracted_names_json>>

\* Lines 134-136.
XnNoFiles ==
    /\ xn_pc = "start"
    /\ txt_files = <<>>
    /\ xn_pc' = "nofiles"
    /\ UNCHANGED <<xn_file, xn_result, txt_files, cpu_count, num_workers,
                   futures, xn_running, xn_file_persons, xn_order, completed,
                   extracted_names_json>>

\* Lines 140-149: the number of workers, and the executor with no task yet.
XnOpenPool ==
    /\ xn_pc = "start"
    /\ txt_files # <<>>
    /\ num_workers' = Min(cpu_count, Len(txt_files))
    /\ xn_running' = [w \in 1..Min(cpu_count, Len(txt_files)) |-> 0]
    /\ xn_pc' = "submitting"
    /\ UNCHANGED <<xn_file, xn_result, txt_files, cpu_count, futures,
                   xn_file_persons, xn_order, completed, extracted_names_json>>

\* Line 150: one executor.submit of the dict comprehension, for the next
\* file of the list; the workers run while the rest is submitted.
XnSubmit ==
    /\ xn_pc = "submitting"
    /\ Len(futures) < Len(txt_files)
    /\ futures' = Append(futures, [file |-> Len(futures) + 1,
                                   state |-> "pending", result |-> NoResult])
    /\ xn_pc' = IF Len(futures) + 1 = Len(txt_files) THEN "pool"
                ELSE "submitting"
    /\ UNCHANGED <<xn_file, xn_result, txt_files, cpu_count, num_workers,
                   xn_running, xn_file_persons, xn_order, completed,
                   extracted_names_json>>

\* An idle worker process takes a pending task.
XnWorkerTake(w) ==
    /\ xn_pc \in {"submitting", "pool"}
    /\ xn_running[w] = 0
    /\ \E t \in 1..Len(futures) :
          /\ futures[t].state = "pending"
          /\ futures' = [futures EXCEPT ![t].state = "running"]
          /\ xn_running' = [xn_running EXCEPT ![w] = t]
    /\ UNCHANGED <<xn_pc, xn_file, xn_result, txt_files, cpu_count, num_workers,
                   xn_file_persons, xn_order, completed, extracted_names_json>>

\* The worker runs process_file on its task's file and hands back the result.
XnWorkerDone(w) ==
    /\ xn_pc \in {"submitting", "pool"}
    /\ xn_running[w] # 0
    /\ LET t == xn_running[w]
       IN  \E result \in process_file(txt_files[futures[t].file]) :
               futures' = [futures EXCEPT ![t].state = "finished",
                                          ![t].result = result]
    /\ xn_running' = [xn_running EXCEPT ![w] = 0]
    /\ UNCHANGED <<xn_pc, xn_file, xn_result, txt_files, cpu_count, num_workers,
                   xn_file_persons, xn_order, completed, extracted_names_json>>

\* dict[key] = value on a dict kept as a function.
DictSet(d, k, v) == [x \in (DOMAIN d) \cup {k} |-> IF x = k THEN v ELSE d[x]]

\* A faulty variant: only the tasks with a result are counted.
CompletedAfterMut(n, result) == IF result.some THEN n + 1 ELSE n
\* Line 158.
CompletedAfter(n, result) == n + 1

\* Lines 152-158: as_completed yields a finished future.
XnCompleted ==
    /\ xn_pc = "pool"
    /\ \E t \in 1..Len(futures) :
          /\ futures[t].state = "finished"
          /\ futures' = [futures EXCEPT ![t].state = "yielded"]
          /\ IF futures[t].result.some
             THEN /\ xn_file_persons' =
                        DictSet(xn_file_persons, futures[t].file,
                                futures[t].result.persons)
                  /\ xn_order' = SetAdd(xn_order, futures[t].file)
             ELSE UNCHANGED <<xn_file_persons, xn_order>>
          /\ completed' = CompletedAfter(completed, futures[t].result)
    /\ UNCHANGED <<xn_pc, xn_file, xn_result, txt_files, cpu_count, num_workers,
                   xn_running, extracted_names_json>>

\* Lines 160-172: every future was yielded; the pool shuts down and the map
\* is written.
XnSave ==
    /\ xn_pc = "pool"
    /\ \A t \in 1..Len(futures) : futures[t].state = "yielded"
    /\ extracted_names_json' = xn_file_persons
    /\ xn_pc' = "saved"
    /\ UNCHANGED <<xn_file, xn_result, txt_files, cpu_count, num_workers,
                   futures, xn_running, xn_file_persons, xn_order, completed>>

(***************************************************************************)
(* preprocess_browser_data.py : the alias mapping and the search index     *)
(***************************************************************************)

\* The alias and canonical cells of alias_mapping.csv.
AliasCells == { <<97>>, <<32, 97>>, <<98>> }          \* "a", " a", "b"
CanonicalCells == { <<88>>, <<89>>, <<88, 32>> }      \* "X", "Y", "X "

MaxAliasRows == 3

AliasCsvs ==
    UNION {[1..n -> [alias : AliasCells, canonical : CanonicalCells]] :
              n \in 0..MaxAliasRows}

\* network_nodes_spacy.csv as load_network_nodes returns it (lines 75-92):
\* name -> appearances, in file order, every name once.
NodeNames == { <<88>>, <<89>> }
NodeAppearances == {1, 2}
NodeRows == [name : NodeNames, appearances : NodeAppearances]
NodeDicts ==
    {<<>>} \cup {<<r>> : r \in NodeRows}
           \cup {d \in [1..2 -> NodeRows] : d[1].name # d[2].name}

\* A dict kept in insertion order is a sequence of [key, value] entries.
HasKey(d, k) == \E i \in 1..Len(d) : d[i].key = k
Lookup(d, k) == d[CHOOSE i \in 1..Len(d) : d[i].key = k].value
Store(d, k, v) ==
    IF HasKey(d, k)
    THEN [i \in 1..Len(d) |-> IF d[i].key = k THEN [key |-> k, value |-> v] ELSE d[i]]
    ELSE Append(d, [key |-> k, value |-> v])
Keys(d) == {d[i].key : i \in 1..Len(d)}

\* Lines 66-70: one CSV row.
AliasRow(maps, row) ==
    LET canonical == Strip(row.canonical)
        alias == Strip(row.alias)
        known == IF HasKey(maps.canonical_aliases, canonical)
                 THEN Lookup(maps.canonical_aliases, canonical)
                 ELSE <<>>
    IN  [ alias_to_canonical |-> Store(maps.alias_to_canonical, alias, canonical),
          canonical_aliases  |->
              Store(maps.canonical_aliases, canonical, SetAdd(known, alias)) ]

RECURSIVE AliasRows(_, _, _)
AliasRows(rows, i, maps) ==
    IF i > Len(rows) THEN maps
    ELSE AliasRows(rows, i + 1, AliasRow(maps, rows[i]))

NoMaps == [alias_to_canonical |-> <<>>, canonical_aliases |-> <<>>]

\* Lines 53-73.
load_alias_mapping(csv) ==
    IF ~csv.exists THEN NoMaps ELSE AliasRows(csv.rows, 1, NoMaps)

\* sorted(nodes.items(), key=lambda x: -x[1]): stable, most appearances first.
RECURSIVE InsertByMentions(_, _)
InsertByMentions(sorted, r) ==
    IF sorted = <<>> THEN <<r>>
    ELSE IF Head(sorted).appearances >= r.appearances
         THEN <<Head(sorted)>> \o InsertByMentions(Tail(sorted), r)
    ELSE <<r>> \o sorted

RECURSIVE SortByMentions(_, _, _)
SortByMentions(nds, i, sorted) ==
    IF i > Len(nds) THEN sorted
    ELSE SortByMentions(nds, i + 1, InsertByMentions(sorted, nds[i]))

INDEX_MAX_ALIASES == 10

\* aliases[:10]
FirstAliases(aliases) == SubSeq(aliases, 1, Min(Len(aliases), INDEX_MAX_ALIASES))

\* Lines 217-223.
IndexPersons(nds, cas) ==
    LET sorted == SortByMentions(nds, 1, <<>>)
    IN  [i \in 1..Len(sorted) |->
            [ name     |-> sorted[i].name,
              mentions |-> sorted[i].appearances,
              aliases  |-> IF HasKey(cas, sorted[i].name)
                           THEN FirstAliases(Lookup(cas, sorted[i].name))
                           ELSE <<>> ]]

\* Lines 228-229: every alias of one canonical name.
RECURSIVE StoreAll(_, _, _, _)
StoreAll(alias_map, aliases, i, name) ==
    IF i > Len(aliases) THEN alias_map
    ELSE StoreAll(Store(alias_map, aliases[i], name), aliases, i + 1, name)

\* Lines 226-229: canonical_aliases is walked in insertion order.
RECURSIVE ReverseAliases(_, _, _)
ReverseAliases(cas, i, alias_map) ==
    IF i > Len(cas) THEN alias_map
    ELSE ReverseAliases(cas, i + 1,
            StoreAll(alias_map, cas[i].value, 1,
                     cas[i].key))

\* Lines 213-234.
generate_person_index(nds, cas) ==
    [ persons   |-> IndexPersons(nds, cas),
      alias_map |-> ReverseAliases(cas, 1, <<>>) ]

NoIndex == [persons |-> <<>>, alias_map |-> <<>>]
NoCsv == [exists |-> FALSE, rows |-> <<>>]

\* person_gantt.json before generate_timeline_data has written it.
NoGantt == [written |-> FALSE, persons |-> <<>>]

\* The input files main reads besides alias_mapping.csv (lines 78, 97, 118,
\* 137, 175, 187, 199, 363 and 389).
NODES_FILE == "network_nodes_spacy.csv"
PERSON_YEAR_FILE == "person_year_links.csv"
InputFiles ==
    { NODES_FILE, "network_edges_spacy.csv", "all_profiles.json", "all_quotes.csv",
      "person_organization_links.csv", "person_location_links.csv",
      PERSON_YEAR_FILE, "year_counts.csv", "all_dates.csv" }

\* The loaders that report a missing file (lines 81, 100, 121 and 140).
WarnedFiles ==
    { NODES_FILE, "network_edges_spacy.csv", "all_profiles.json", "all_quotes.csv" }

\* A nodes file of two persons, "X" with 2 appearances and "Y" with 1, and
\* one of three persons, "X y", "X-y" and "Y".
SampleNodes ==
    << [name |-> <<88>>, appearances |-> 2], [name |-> <<89>>, appearances |-> 1] >>
SampleNodes3 ==
    << [name |-> <<88, 32, 121>>, appearances |-> 2],
       [name |-> <<88, 45, 121>>, appearances |-> 1],
       [name |-> <<89>>, appearances |-> 1] >>
SampleNodesLower == << [name |-> <<120>>, appearances |-> 1] >>

\* Every input file is there; the alias file and the nodes vary.
PreInitAliases ==
    /\ alias_csv \in {NoCsv} \cup {[exists |-> TRUE, rows |-> r] : r \in AliasCsvs}
    /\ input_files = InputFiles
    /\ nodes \in NodeDicts
    /\ person_year_csv = <<>>
    /\ all_quotes_csv = <<>>
    /\ year_counts_csv = <<>>
    /\ all_dates_csv = <<>>

\* Any of the input files may be missing; load_network_nodes returns an
\* empty dict for a missing nodes file (lines 80-82).
PreInitFiles ==
    /\ alias_csv \in {NoCsv, [exists |-> TRUE, rows |-> <<>>]}
    /\ input_files \in SUBSET InputFiles
    /\ nodes \in IF NODES_FILE \in input_files THEN {SampleNodes, SampleNodes3}
                ELSE {<<>>}
    /\ person_year_csv = <<>>
    /\ all_quotes_csv = <<>>
    /\ year_counts_csv = <<>>
    /\ all_dates_csv = <<>>

\* The cells of person_year_links.csv: the persons "Abc", "Xyz", "Ab" and
\* "-Abc", the years "1969", "1970", "2025" and "x".
YearPersons == { <<65, 98, 99>>, <<88, 121, 122>>, <<65, 98>>, <<45, 65, 98, 99>> }
YearCells == { <<49, 57, 54, 57>>, <<49, 57, 55, 48>>, <<50, 48, 50, 53>>, <<120>> }
YearCounts == {1, 2}
MaxYearRows == 2
YearCsvs ==
    UNION {[1..n -> [person : YearPersons, year : YearCells,
                     cooccurrences : YearCounts]] : n \in 0..MaxYearRows}

\* Every input file is there; the rows of person_year_links.csv vary.
PreInitYears ==
    /\ alias_csv = NoCsv
    /\ input_files = InputFiles
    /\ nodes = SampleNodes
    /\ person_year_csv \in YearCsvs
    /\ all_quotes_csv = <<>>
    /\ year_counts_csv = <<>>
    /\ all_dates_csv = <<>>

\* The rows of all_quotes.csv: the speakers "X", "a" and "THE WITNESS", with
\* an answer "q" or without one.
MaxPreQuotes == 2
THE_WITNESS == <<84, 72, 69, 32, 87, 73, 84, 78, 69, 83, 83>>
QuoteSpeakers == { <<88>>, <<97>>, THE_WITNESS }
QuoteAnswers == { <<>>, <<113>> }
PreQuoteCsvs ==
    UNION {[1..n -> [speaker : QuoteSpeakers, answer : QuoteAnswers, quote : {<<>>}]] :
              n \in 0..MaxPreQuotes}

\* Every input file is there; the rows of all_quotes.csv and the alias file
\* vary.
PreInitQuotes ==
    /\ alias_csv \in {NoCsv,
                      [exists |-> TRUE,
                       rows |-> <<[alias |-> <<65>>, canonical |-> <<88>>]>>],
                      [exists |-> TRUE,
                       rows |-> <<[alias |-> <<97>>, canonical |-> <<88>>]>>]}
    /\ input_files = InputFiles
    /\ nodes \in {SampleNodes, SampleNodesLower}
    /\ person_year_csv = <<>>
    /\ all_quotes_csv \in PreQuoteCsvs
    /\ year_counts_csv = <<>>
    /\ all_dates_csv = <<>>

\* The cells of year_counts.csv: the years "1999" and "x", the mentions "3"
\* and "x".
CountCells == { <<49, 57, 57, 57>>, <<120>> }
MentionCells == { <<51>>, <<120>> }
MaxCountRows == 1
CountCsvs ==
    UNION {[1..n -> [year : CountCells, mentions : MentionCells]] :
              n \in 0..MaxCountRows}

\* The cells of all_dates.csv: the years "1969", "1970", "1999" and "x",
\* the months "", "5" and "x", the parsed dates "1999-05-01" and "1999".
DateYears ==
    { <<49, 57, 54, 57>>, <<49, 57, 55, 48>>, <<49, 57, 57, 57>>, <<120>> }
DateMonths == { <<>>, <<53>>, <<120>> }
DatesParsed ==
    { <<49, 57, 57, 57, 45, 48, 53, 45, 48, 49>>, <<49, 57, 57, 57>> }
MaxDateRows == 2
DateCsvs ==
    UNION {[1..n -> [year : DateYears, month : DateMonths, parsed : DatesParsed]] :
              n \in 0..MaxDateRows}

\* The rows of year_counts.csv and all_dates.csv vary, and all_dates.csv may
\* be missing.
PreInitDates ==
    /\ alias_csv = NoCsv
    /\ input_files \in {InputFiles, InputFiles \ {"all_dates.csv"}}
    /\ nodes = SampleNodes
    /\ person_year_csv = <<>>
    /\ all_quotes_csv = <<>>
    /\ year_counts_csv \in CountCsvs
    /\ all_dates_csv \in IF "all_dates.csv" \in input_files THEN DateCsvs ELSE {<<>>}

NoYearIndex == [written |-> FALSE, years |-> <<>>, total_events |-> 0]
NoEventsIndex == [written |-> FALSE, years |-> <<>>]

PreInit ==
    /\ pre_pc = "start"
    /\ \/ PreInitAliases \/ PreInitFiles \/ PreInitYears \/ PreInitQuotes
       \/ PreInitDates
    /\ year_index = NoYearIndex
    /\ year_files = <<>>
    /\ events_index = NoEventsIndex
    /\ alias_to_canonical = <<>>
    /\ canonical_aliases = <<>>
    /\ person_index = NoIndex
    /\ pre_warnings = {}
    /\ pre_outputs = {}
    /\ person_files = <<>>
    /\ person_count = 0
    /\ person_gantt = NoGantt
    /\ quotes_by_speaker = <<>>

\* The preprocessor does not run; alias_mapping.csv is whatever it is.
PreRunIdle ==
    /\ pre_pc = "idle"
    /\ nodes = <<>>
    /\ alias_to_canonical = <<>>
    /\ canonical_aliases = <<>>
    /\ person_index = NoIndex
    /\ input_files = {}
    /\ person_year_csv = <<>>
    /\ all_quotes_csv = <<>>
    /\ pre_warnings = {}
    /\ pre_outputs = {}
    /\ person_files = <<>>
    /\ person_count = 0
    /\ person_gantt = NoGantt
    /\ quotes_by_speaker = <<>>
    /\ year_counts_csv = <<>>
    /\ all_dates_csv = <<>>
    /\ year_index = NoYearIndex
    /\ year_files = <<>>
    /\ events_index = NoEventsIndex

PreIdle ==
    /\ pre_pc = "idle"
    /\ alias_csv = NoCsv
    /\ nodes = <<>>
    /\ alias_to_canonical = <<>>
    /\ canonical_aliases = <<>>
    /\ person_index = NoIndex
    /\ input_files = {}
    /\ person_year_csv = <<>>
    /\ all_quotes_csv = <<>>
    /\ pre_warnings = {}
    /\ pre_outputs = {}
    /\ person_files = <<>>
    /\ person_count = 0
    /\ person_gantt = NoGantt
    /\ quotes_by_speaker = <<>>
    /\ year_counts_csv = <<>>
    /\ all_dates_csv = <<>>
    /\ year_index = NoYearIndex
    /\ year_files = <<>>
    /\ events_index = NoEventsIndex

\* The "not found" messages of the loaders (lines 60, 81, 100, 121, 140).
NotFound(csv, files) ==
    (WarnedFiles \ files) \cup (IF csv.exists THEN {} ELSE {"alias_mapping.csv"})

\* Lines 146-163: one row of all_quotes.csv.  The speaker is looked up in
\* the alias map in upper case; a row without an answer and a quote is left
\* out.
QuoteRow(by_speaker, row, a2c) ==
    LET speaker == Upper(Strip(row.speaker))
        canonical == IF HasKey(a2c, speaker) THEN Lookup(a2c, speaker) ELSE speaker
        known == IF HasKey(by_speaker, canonical)
                 THEN Lookup(by_speaker, canonical) ELSE <<>>
    IN  IF speaker = <<>> \/ speaker = THE_WITNESS THEN by_speaker
        ELSE IF row.answer # <<>> \/ row.quote # <<>>
        THEN Store(by_speaker, canonical, Append(known, row))
        ELSE by_speaker

\* Lines 134-166: the preprocessor's load_quotes.
RECURSIVE load_quotes(_, _, _, _)
load_quotes(rows, i, a2c, by_speaker) ==
    IF i > Len(rows) THEN by_speaker
    ELSE load_quotes(rows, i + 1, a2c, QuoteRow(by_speaker, rows[i], a2c))

\* main, lines 746-763: the alias mapping and the other inputs are loaded; a
\* missing file is reported or passed over and gives empty data.
PreLoadAliases ==
    /\ pre_pc = "start"
    /\ alias_to_canonical' = load_alias_mapping(alias_csv).alias_to_canonical
    /\ canonical_aliases' = load_alias_mapping(alias_csv).canonical_aliases
    /\ quotes_by_speaker' =
          IF "all_quotes.csv" \in input_files
          THEN load_quotes(all_quotes_csv, 1, alias_to_canonical', <<>>)
          ELSE <<>>
    /\ pre_warnings' = NotFound(alias_csv, input_files)
    /\ pre_pc' = "loaded"
    /\ UNCHANGED <<alias_csv, nodes, person_index, input_files, pre_outputs,
                   person_files, person_count, person_year_csv, person_gantt,
                   all_quotes_csv>>
    /\ UNCHANGED <<year_counts_csv, all_dates_csv, year_index, year_files,
                   events_index>>

\* main, lines 765-771.
PreGenerateIndex ==
    /\ pre_pc = "loaded"
    /\ person_index' = generate_person_index(nodes, canonical_aliases)
    /\ pre_outputs' = pre_outputs \cup {"person_index.json"}
    /\ pre_pc' = "indexed"
    /\ UNCHANGED <<alias_csv, nodes, alias_to_canonical, canonical_aliases,
                   input_files, pre_warnings, person_files, person_count,
                   person_year_csv, person_gantt, all_quotes_csv, quotes_by_speaker>>
    /\ UNCHANGED <<year_counts_csv, all_dates_csv, year_index, year_files,
                   events_index>>

\* str.strip("_")
RECURSIVE StripUnderscores(_)
StripUnderscores(s) ==
    IF s = <<>> THEN s
    ELSE IF Head(s) = 95 THEN StripUnderscores(Tail(s))
    ELSE IF s[Len(s)] = 95 THEN StripUnderscores(SubSeq(s, 1, Len(s) - 1))
    ELSE s

\* Lines 49-51.
safe_filename(name) ==
    LET upper == Upper(name)
    IN  StripUnderscores([i \in 1..Len(upper) |->
            IF upper[i] \in 65..90 \/ upper[i] \in 48..57 THEN upper[i] ELSE 95])

\* Lines 786-797: the files of nodes[i] and the persons after it are written
\* in the order of the keys; open(person_file, 'w') replaces a file that is
\* there.
\* Lines 236-281: the name and the quote_count of a person's data.
generate_person_file(name, by_speaker) ==
    [name |-> name,
     quote_count |-> IF HasKey(by_speaker, name)
                     THEN Len(Lookup(by_speaker, name)) ELSE 0]

RECURSIVE WritePersonFiles(_, _, _, _)
WritePersonFiles(nds, i, by_speaker, files) ==
    IF i > Len(nds) THEN files
    ELSE WritePersonFiles(nds, i + 1, by_speaker,
             (safe_filename(nds[i].name) :>
                  generate_person_file(nds[i].name, by_speaker)) @@ files)

\* main, lines 783-800: one file per key of nodes, counted as it is written.
PrePersonFiles ==
    /\ pre_pc = "indexed"
    /\ person_files' = WritePersonFiles(nodes, 1, quotes_by_speaker, <<>>)
    /\ person_count' = Len(nodes)
    /\ pre_pc' = "persons"
    /\ UNCHANGED <<alias_csv, nodes, alias_to_canonical, canonical_aliases,
                   person_index, input_files, pre_warnings, pre_outputs,
                   person_year_csv, person_gantt, all_quotes_csv, quotes_by_speaker>>
    /\ UNCHANGED <<year_counts_csv, all_dates_csv, year_index, year_files,
                   events_index>>

\* The code points that are the decimal digit 0 of a script (Unicode 14, the
\* interpreter's table); the nine code points after each are its digits 1
\* to 9.  int() takes the digits of every script.
DecimalZeros ==
    { 48, 1632, 1776, 1984, 2406, 2534, 2662, 2790,
      2918, 3046, 3174, 3302, 3430, 3558, 3664, 3792,
      3872, 4160, 4240, 6112, 6160, 6470, 6608, 6784,
      6800, 6992, 7088, 7232, 7248, 42528, 43216, 43264,
      43472, 43504, 43600, 44016, 65296, 66720, 68912, 69734,
      69872, 69942, 70096, 70384, 70736, 70864, 71248, 71360,
      71472, 71904, 72016, 72784, 73040, 73120, 92768, 92864,
      93008, 120782, 120792, 120802, 120812, 120822, 123200, 123632,
      125264, 130032 }

\* The digit a character stands for, or -1.
DigitOf(c) ==
    IF \E z \in DecimalZeros : c \in z..(z + 9)
    THEN c - (CHOOSE z \in DecimalZeros : c \in z..(z + 9))
    ELSE -1

\* The value of a string of digits.
RECURSIVE DigitsValue(_)
DigitsValue(ds) ==
    IF ds = <<>> THEN 0
    ELSE 10 * DigitsValue(SubSeq(ds, 1, Len(ds) - 1)) + DigitOf(ds[Len(ds)])

\* The digits from the first that is not a zero on.
Significant(ds) ==
    IF \A i \in 1..Len(ds) : DigitOf(ds[i]) = 0 THEN <<>>
    ELSE SubSeq(ds, CHOOSE i \in 1..Len(ds) :
                        /\ DigitOf(ds[i]) # 0
                        /\ \A j \in 1..(i - 1) : DigitOf(ds[j]) = 0,
                Len(ds))

\* The white space int() passes over: that of C, and in a text that is not
\* ASCII the Unicode spaces above U+007F.
IntSpace(c) ==
    c \in (9..13) \cup {32, 133, 160, 5760} \cup (8192..8202)
             \cup {8232, 8233, 8239, 8287, 12288}

RECURSIVE IntStrip(_)
IntStrip(s) ==
    IF s # <<>> /\ IntSpace(Head(s)) THEN IntStrip(Tail(s))
    ELSE IF s # <<>> /\ IntSpace(s[Len(s)]) THEN IntStrip(SubSeq(s, 1, Len(s) - 1))
    ELSE s

\* sys.int_max_str_digits: int() raises ValueError for more digits.
INT_MAX_STR_DIGITS == 4300

\* int(s): white space around, an optional sign, then at most
\* INT_MAX_STR_DIGITS digits with single underscores between them; anything
\* else raises ValueError (ok is FALSE).
ParseInt(s) ==
    LET t == IntStrip(s)
        signed == t # <<>> /\ Head(t) \in {43, 45}
        ds == IF signed THEN Tail(t) ELSE t
        digits == SelectSeq(ds, LAMBDA c : c # 95)
        ok == /\ ds # <<>>
              /\ \A i \in 1..Len(ds) :
                    \/ DigitOf(ds[i]) >= 0
                    \/ /\ ds[i] = 95
                       /\ 1 < i /\ i < Len(ds)
                       /\ DigitOf(ds[i - 1]) >= 0
                       /\ DigitOf(ds[i + 1]) >= 0
              /\ Len(digits) <= INT_MAX_STR_DIGITS
        value == DigitsValue(Significant(digits))
    IN  [ok |-> ok,
         value |-> IF ~ok THEN 0
                   ELSE IF signed /\ Head(t) = 45 THEN 0 - value
                   ELSE value]

\* seq[start:stop] for integers start and stop.
PyIndex(n, len) ==
    IF n < 0 THEN (IF n + len < 0 THEN 0 ELSE n + len)
    ELSE IF n > len THEN len ELSE n
\* A faulty variant: the slice starts one element late.
PySliceMut(seq, start, stop) ==
    LET a == PyIndex(start + 1, Len(seq))
        b == PyIndex(stop, Len(seq))
    IN  IF a < b THEN SubSeq(seq, a + 1, b) ELSE <<>>
PySlice(seq, start, stop) ==
    LET a == PyIndex(start, Len(seq))
        b == PyIndex(stop, Len(seq))
    IN  IF a < b THEN SubSeq(seq, a + 1, b) ELSE <<>>

\* Lines 30 and 317.
MAX_PERSONS_IN_GANTT == 500
GANTT_FIRST_YEAR == 1970
GANTT_LAST_YEAR == 2025

NoYears == [years |-> <<>>, total |-> 0]

\* Lines 304-322: one row of person_year_links.csv.  A person gets an entry
\* only when a year of the range is stored for it.
GanttRow(raw, row) ==
    LET person == Strip(row.person)
        year == Strip(row.year)
        count == row.cooccurrences
        year_int == ParseInt(year)
        data == IF HasKey(raw, person) THEN Lookup(raw, person) ELSE NoYears
    IN  IF person = <<>> \/ Len(person) < 3 THEN raw
        ELSE IF Head(person) \in {38, 45} THEN raw
        ELSE IF ~year_int.ok THEN raw
        ELSE IF year_int.value \in GANTT_FIRST_YEAR..GANTT_LAST_YEAR
        THEN Store(raw, person, [years |-> Store(data.years, year, count),
                                 total |-> data.total + count])
        ELSE raw

RECURSIVE GanttRows(_, _, _)
GanttRows(rows, i, raw) ==
    IF i > Len(rows) THEN raw
    ELSE GanttRows(rows, i + 1, GanttRow(raw, rows[i]))

\* Lines 325-329: sorted(..., key=total, reverse=True), which keeps the
\* order of the entries with equal totals.
RECURSIVE InsertByTotal(_, _)
InsertByTotal(sorted, e) ==
    IF sorted = <<>> THEN <<e>>
    ELSE IF Head(sorted).value.total >= e.value.total
         THEN <<Head(sorted)>> \o InsertByTotal(Tail(sorted), e)
    ELSE <<e>> \o sorted

RECURSIVE SortByTotal(_, _, _)
SortByTotal(raw, i, sorted) ==
    IF i > Len(raw) THEN sorted
    ELSE SortByTotal(raw, i + 1, InsertByTotal(sorted, raw[i]))

\* min() and max() of the year keys as integers.
MinYear(years) ==
    CHOOSE y \in {ParseInt(years[k].key).value : k \in 1..Len(years)} :
        \A k \in 1..Len(years) : y <= ParseInt(years[k].key).value
MaxYear(years) ==
    CHOOSE y \in {ParseInt(years[k].key).value : k \in 1..Len(years)} :
        \A k \in 1..Len(years) : y >= ParseInt(years[k].key).value

\* Lines 332-342: the entries of the persons that have years.
RECURSIVE GanttPersons(_)
GanttPersons(sorted_persons) ==
    IF sorted_persons = <<>> THEN <<>>
    ELSE LET name == Head(sorted_persons).key
             data == Head(sorted_persons).value
         IN  (IF data.years # <<>>
              THEN << [name |-> name,
                       first_year |-> MinYear(data.years),
                       last_year |-> MaxYear(data.years),
                       total |-> data.total,
                       years |-> data.years] >>
              ELSE <<>>) \o GanttPersons(Tail(sorted_persons))

\* Lines 295-342: the persons of person_gantt.json.
person_gantt_persons(rows) ==
    GanttPersons(PySlice(SortByTotal(GanttRows(rows, 1, <<>>), 1, <<>>),
                         0, MAX_PERSONS_IN_GANTT))

\* Line 31.
MAX_EVENTS_PER_YEAR == 5000

\* Lines 363-370: int() of a cell of year_counts.csv raises.
YearCountsRaise(files, rows) ==
    /\ "year_counts.csv" \in files
    /\ \E i \in 1..Len(rows) :
          ~ParseInt(rows[i].year).ok \/ ~ParseInt(rows[i].mentions).ok

\* Lines 368-370: the rows of year_counts.csv as numbers.
YearsList(rows) ==
    [i \in 1..Len(rows) |-> [year |-> ParseInt(rows[i].year).value,
                             mentions |-> ParseInt(rows[i].mentions).value]]

\* Line 374: sorted(years_list, key=year), which keeps the order of the
\* entries of one year.
RECURSIVE InsertByYear(_, _)
InsertByYear(sorted, e) ==
    IF sorted = <<>> THEN <<e>>
    ELSE IF e.year < Head(sorted).year THEN <<e>> \o sorted
    ELSE <<Head(sorted)>> \o InsertByYear(Tail(sorted), e)

RECURSIVE SortByYear(_, _, _)
SortByYear(list, i, sorted) ==
    IF i > Len(list) THEN sorted
    ELSE SortByYear(list, i + 1, InsertByYear(sorted, list[i]))

RECURSIVE TotalMentions(_)
TotalMentions(list) ==
    IF list = <<>> THEN 0 ELSE Head(list).mentions + TotalMentions(Tail(list))

\* Lines 363-376: year_index.json.
YearIndexOf(files, rows) ==
    LET years_list == IF "year_counts.csv" \in files THEN YearsList(rows) ELSE <<>>
    IN  [written |-> TRUE,
         years |-> SortByYear(years_list, 1, <<>>),
         total_events |-> TotalMentions(years_list)]

\* Lines 393-412: one row of all_dates.csv.  A row whose year or month is
\* no number, or whose year is outside the range, is passed over.
DateRow(by_year, row) ==
    LET year == ParseInt(row.year)
        month == IF row.month # <<>> THEN ParseInt(row.month)
                 ELSE [ok |-> TRUE, value |-> 0]
        events == IF HasKey(by_year, year.value) THEN Lookup(by_year, year.value)
                  ELSE <<>>
    IN  IF ~year.ok THEN by_year
        ELSE IF year.value < GANTT_FIRST_YEAR \/ year.value > GANTT_LAST_YEAR
        THEN by_year
        ELSE IF ~month.ok THEN by_year
        ELSE Store(by_year, year.value,
                   Append(events, [date |-> row.parsed, month |-> month.value]))

\* Lines 389-412: events_by_year, the years in the order of their first row.
RECURSIVE DateRows(_, _, _)
DateRows(rows, i, by_year) ==
    IF i > Len(rows) THEN by_year
    ELSE DateRows(rows, i + 1, DateRow(by_year, rows[i]))

\* a < b for two strings.
RECURSIVE StrLess(_, _)
StrLess(a, b) ==
    IF b = <<>> THEN FALSE
    ELSE IF a = <<>> THEN TRUE
    ELSE IF Head(a) # Head(b) THEN Head(a) < Head(b)
    ELSE StrLess(Tail(a), Tail(b))

\* Line 421: the key (e['month'] == 0, e['date']) of a is less than that of b.
EventKeyLess(a, b) ==
    IF (a.month = 0) # (b.month = 0) THEN b.month = 0
    ELSE StrLess(a.date, b.date)

\* Lines 419-422: sorted(events, key=...), which keeps the order of the
\* events with equal keys.
RECURSIVE InsertEvent(_, _)
InsertEvent(sorted, e) ==
    IF sorted = <<>> THEN <<e>>
    ELSE IF EventKeyLess(e, Head(sorted)) THEN <<e>> \o sorted
    ELSE <<Head(sorted)>> \o InsertEvent(Tail(sorted), e)

RECURSIVE SortEvents(_, _, _)
SortEvents(events, i, sorted) ==
    IF i > Len(events) THEN sorted
    ELSE SortEvents(events, i + 1, InsertEvent(sorted, events[i]))

\* Lines 417-435: the year files, one for every year of events_by_year.
YearFiles(by_year) ==
    [year \in Keys(by_year) |->
        LET events == Lookup(by_year, year)
            events_sorted == PySlice(SortEvents(events, 1, <<>>), 0,
                                     MAX_EVENTS_PER_YEAR)
        IN  [year |-> year,
             count |-> Len(events_sorted),
             total_in_year |-> Len(events),
             events |-> events_sorted]]

\* Lines 440-448: the years of events_index.json, in the order of
\* events_by_year: the number of events of each; its file is
\* events/<year>.json.
EventsIndexOf(by_year) ==
    [written |-> TRUE,
     years |-> [i \in 1..Len(by_year) |->
                   [year |-> by_year[i].key, count |-> Len(by_year[i].value)]]]

\* Path.stat() raises for a file that does not exist.
StatRaises(files, name) == name \notin files

\* The files generate_timeline_data writes whatever its inputs hold
\* (lines 350, 378 and 450).
TimelineOutputs == {"person_gantt.json", "year_index.json", "events_index.json"}

\* main, line 803: generate_timeline_data (lines 285-456).  Each of its three
\* inputs is read only if it exists (lines 300, 364 and 390), but line 347
\* asks for the modification time of person_year_links.csv in any case, and
\* that is before the first output is written.  A cell of year_counts.csv
\* that is no number ends the run after person_gantt.json is written.
PreTimeline ==
    /\ pre_pc = "persons"
    /\ IF StatRaises(input_files, PERSON_YEAR_FILE)
       THEN /\ pre_pc' = "crashed"
            /\ UNCHANGED <<pre_outputs, person_gantt, year_index, year_files,
                           events_index>>
       ELSE /\ person_gantt' = [written |-> TRUE,
                                persons |-> person_gantt_persons(person_year_csv)]
            /\ IF YearCountsRaise(input_files, year_counts_csv)
               THEN /\ pre_pc' = "crashed"
                    /\ pre_outputs' = pre_outputs \cup {"person_gantt.json"}
                    /\ UNCHANGED <<year_index, year_files, events_index>>
               ELSE \E events_by_year \in
                         {IF "all_dates.csv" \in input_files
                          THEN DateRows(all_dates_csv, 1, <<>>) ELSE <<>>} :
                    /\ pre_pc' = "timeline"
                    /\ pre_outputs' = pre_outputs \cup TimelineOutputs
                    /\ year_index' = YearIndexOf(input_files, year_counts_csv)
                    /\ year_files' = YearFiles(events_by_year)
                    /\ events_index' = EventsIndexOf(events_by_year)
    /\ UNCHANGED <<alias_csv, nodes, alias_to_canonical, canonical_aliases,
                   person_index, input_files, pre_warnings, person_files, person_count,
                   person_year_csv, all_quotes_csv, quotes_by_speaker,
                   year_counts_csv, all_dates_csv>>


(***************************************************************************)
(* preprocess_browser_data.py : generate_map_data and the geocode cache    *)
(***************************************************************************)

\* Line 617: the cache is saved every SAVE_EVERY handled locations.
SAVE_EVERY == 50

\* The geocoder answers freely for the first MaxFreeLocs locations; for the
\* SAVE_EVERY after them it finds the place at once, so that a run reaches
\* the periodic save.
MaxFreeLocs == 2

NumLocs == MaxFreeLocs + SAVE_EVERY

\* sorted_locs (line 577): the valid locations of all_locations.csv, most
\* frequent first, each named by its rank.
sorted_locs == [i \in 1..NumLocs |-> i]

\* What the two geocode calls of lines 601-603 do for one location:
\*   "usa"    the query with ", USA" finds the place
\*   "plain"  only the query without the suffix finds it
\*   "none"   neither finds it
\*   "raise1" the first call raises
\*   "raise2" the first call finds nothing and the second raises
Answers == {"usa", "plain", "none", "raise1", "raise2"}

Worlds ==
    {[l \in 1..NumLocs |-> IF l <= MaxFreeLocs THEN free[l] ELSE "usa"] :
        free \in [1..MaxFreeLocs -> Answers]}

\* name.lower() (line 594).  Cache keys are numbers: location l has key l,
\* unless the names of locations 1 and 2 differ only in letter case, as
\* "Washington D.C.foo" and "Washington D.C.Foo" do; key 0 belongs to a
\* location of an earlier run that this run's CSV does not hold.
LocKeys ==
    { [l \in 1..NumLocs |-> l],
      [l \in 1..NumLocs |-> IF l = 2 THEN 1 ELSE l] }

\* The values of a cache file: None for a failed lookup, or coordinates.
\* "old" are coordinates of an earlier run, "usa" and "plain" those this
\* run's first or second query returned.
CachedBefore == {"None", "old"}

\* The cache files a run may start from.
CacheFiles ==
    {[exists |-> FALSE, data |-> <<>>]} \cup
    {[exists |-> TRUE, data |-> d] :
        d \in UNION {[K -> CachedBefore] : K \in SUBSET {0, 1}}}

\* Lines 513-518.
load_geocode_cache(file) == IF file.exists THEN file.data ELSE <<>>

\* A faulty variant: the failed lookups are not written.
save_geocode_cache_mut(file, cache) ==
    [exists |-> TRUE,
     data |-> [k \in {x \in DOMAIN cache : cache[x] # "None"} |-> cache[k]]]
\* Lines 521-524.
save_geocode_cache(file, cache) == [exists |-> TRUE, data |-> cache]

\* A faulty variant: a key cached as null counts as not cached.
IsCachedMut(cache, key) == key \in DOMAIN cache /\ cache[key] # "None"
\* Line 596.
IsCached(cache, key) == key \in DOMAIN cache

\* The geocoder calls lines 601-603 make for an answer.
CallsUsa(answer) == 1
CallsPlain(answer) == IF answer \in {"plain", "none", "raise2"} THEN 1 ELSE 0

\* Lines 605-614 and 622-624: what is cached for an answer.
CachedFor(answer) == IF answer \in {"usa", "plain"} THEN answer ELSE "None"

NoQueries == [l \in 1..NumLocs |-> [usa |-> 0, plain |-> 0]]

\* Values of the environment variable SKIP_GEOCODING: not set, "1", "TRUE",
\* "Yes" and "0".
SkipValues ==
    {<<>>, <<49>>, <<84, 82, 85, 69>>, <<89, 101, 115>>, <<48>>}

\* The words of line 580: '1', 'true' and 'yes'.
SKIP_WORDS == {<<49>>, <<116, 114, 117, 101>>, <<121, 101, 115>>}

\* A faulty variant: the value is compared as it is spelled.
SkipRequestedMut(value) == value \in SKIP_WORDS
\* Line 580.
SkipRequested(value) == Lower(value) \in SKIP_WORDS

GeoInit ==
    /\ geo_pc = "start"
    /\ GEOPY_AVAILABLE \in BOOLEAN
    /\ locations_exists \in BOOLEAN
    /\ SKIP_GEOCODING \in SkipValues
    /\ skip_geocoding = SkipRequested(SKIP_GEOCODING)
    /\ geo_world \in Worlds
    /\ loc_key \in LocKeys
    /\ cache_file \in CacheFiles
    /\ cache_before = cache_file
    /\ geocode_cache = <<>>
    /\ geo_i = 1
    /\ geocoded_count = 0
    /\ failed_count = 0
    /\ geo_queries = NoQueries
    /\ geo_log = <<>>
    /\ geocoded_locations = <<>>

GeoIdle ==
    /\ geo_pc = "idle"
    /\ GEOPY_AVAILABLE = FALSE
    /\ locations_exists = FALSE
    /\ SKIP_GEOCODING = <<>>
    /\ skip_geocoding = FALSE
    /\ geo_world = <<>>
    /\ loc_key = <<>>
    /\ cache_file = [exists |-> FALSE, data |-> <<>>]
    /\ cache_before = cache_file
    /\ geocode_cache = <<>>
    /\ geo_i = 1
    /\ geocoded_count = 0
    /\ failed_count = 0
    /\ geo_queries = <<>>
    /\ geo_log = <<>>
    /\ geocoded_locations = <<>>

geoEnv == <<GEOPY_AVAILABLE, locations_exists, SKIP_GEOCODING, skip_geocoding,
            geo_world,
            loc_key, cache_before>>

\* Lines 533-547: geopy is missing or all_locations.csv does not exist.
GeoReturnEarly ==
    /\ geo_pc = "start"
    /\ ~GEOPY_AVAILABLE \/ ~locations_exists
    /\ geo_pc' = "returned"
    /\ UNCHANGED <<geoEnv, cache_file, geocode_cache, geo_i, geocoded_count,
                   failed_count, geo_queries, geo_log, geocoded_locations>>

\* Lines 549-591: the locations and the cache are loaded.
GeoLoad ==
    /\ geo_pc = "start"
    /\ GEOPY_AVAILABLE /\ locations_exists
    /\ geocode_cache' = load_geocode_cache(cache_file)
    /\ geo_pc' = IF skip_geocoding THEN "outputs" ELSE "loop"
    /\ UNCHANGED <<geoEnv, cache_file, geo_i, geocoded_count, failed_count,
                   geo_queries, geo_log, geocoded_locations>>

\* Lines 593-597: the location's key is in the cache.
GeoCached ==
    /\ geo_pc = "loop"
    /\ geo_i <= NumLocs
    /\ IsCached(geocode_cache, loc_key[sorted_locs[geo_i]])
    /\ geo_i' = geo_i + 1
    /\ UNCHANGED <<geo_pc, geoEnv, cache_file, geocode_cache, geocoded_count,
                   failed_count, geo_queries, geo_log, geocoded_locations>>

\* Lines 619-620: the line printed with every periodic save of the cache.
ProgressLine(geocoded, failed, remaining) ==
    [line |-> "progress", geocoded |-> geocoded, failed |-> failed,
     remaining |-> remaining]

\* Line 627: the line printed after the loop.
SummaryLine(geocoded, failed) ==
    [line |-> "summary", geocoded |-> geocoded, failed |-> failed]

\* Lines 593-624: the location is geocoded and the outcome cached.  The
\* handler of lines 622-624 prints nothing.
GeoQuery ==
    /\ geo_pc = "loop"
    /\ geo_i <= NumLocs
    /\ ~IsCached(geocode_cache, loc_key[sorted_locs[geo_i]])
    /\ LET name == sorted_locs[geo_i]
           cache_key == loc_key[name]
           answer == geo_world[name]
           found == answer \in {"usa", "plain"}
           raised == answer \in {"raise1", "raise2"}
           cache == DictSet(geocode_cache, cache_key, CachedFor(answer))
           geocoded == geocoded_count + (IF found THEN 1 ELSE 0)
           failed == failed_count + (IF found THEN 0 ELSE 1)
       IN  /\ geo_queries' = [geo_queries EXCEPT
                  ![name].usa = @ + CallsUsa(answer),
                  ![name].plain = @ + CallsPlain(answer)]
           /\ geocode_cache' = cache
           /\ geocoded_count' = geocoded
           /\ failed_count' = failed
           /\ cache_file' = IF ~raised /\ (geocoded + failed) % SAVE_EVERY = 0
                            THEN save_geocode_cache(cache_file, cache)
                            ELSE cache_file
           /\ geo_log' = IF ~raised /\ (geocoded + failed) % SAVE_EVERY = 0
                         THEN Append(geo_log,
                                     ProgressLine(geocoded, failed, NumLocs - geo_i))
                         ELSE geo_log
    /\ geo_i' = geo_i + 1
    /\ UNCHANGED <<geo_pc, geoEnv, geocoded_locations>>

\* Lines 626-627: the loop is over, the cache is saved and the counts are
\* printed.
GeoSave ==
    /\ geo_pc = "loop"
    /\ geo_i > NumLocs
    /\ cache_file' = save_geocode_cache(cache_file, geocode_cache)
    /\ geo_log' = Append(geo_log, SummaryLine(geocoded_count, failed_count))
    /\ geo_pc' = "outputs"
    /\ UNCHANGED <<geoEnv, geocode_cache, geo_i, geocoded_count, failed_count,
                   geo_queries, geocoded_locations>>

\* Lines 672-685: the locations whose key is cached with coordinates.
GeocodedLocations(cache, keys) ==
    SelectSeq(sorted_locs,
              LAMBDA name : keys[name] \in DOMAIN cache /\ cache[keys[name]] # "None")

\* Lines 629-735: the map files are written.
GeoOutputs ==
    /\ geo_pc = "outputs"
    /\ geocoded_locations' = GeocodedLocations(geocode_cache, loc_key)
    /\ geo_pc' = "done"
    /\ UNCHANGED <<geoEnv, cache_file, geocode_cache, geo_i, geocoded_count,
                   failed_count, geo_queries, geo_log>>

(***************************************************************************)
(* serve.py                                                                *)
(***************************************************************************)

\* A query parameter as parse_qs returns it: absent (a blank value is
\* dropped too), or its first value.
Absent == [given |-> FALSE, value |-> <<>>]
Given(v) == [given |-> TRUE, value |-> v]

\* params.get(name, [default])[0]
ParamOr(p, default) == IF p.given THEN p.value ELSE default

\* Lines 39-41.
srv_normalize_name(name) == Strip(Upper(name))

\* Lines 97-103: the alias map handle_quotes_api reads on every request.
RECURSIVE SrvAliasRows(_, _, _)
SrvAliasRows(rows, i, map) ==
    IF i > Len(rows) THEN map
    ELSE SrvAliasRows(rows, i + 1,
            Store(map, Strip(Upper(rows[i].alias)), Strip(Upper(rows[i].canonical))))
SrvAliasMap(csv) == IF ~csv.exists THEN <<>> ELSE SrvAliasRows(csv.rows, 1, <<>>)

\* dict.get(key, key)
Resolve(map, name) == IF HasKey(map, name) THEN Lookup(map, name) ELSE name

\* Lines 110-123: the quotes whose speaker matches, in CSV order.
MatchingQuotes(all_quotes, map, canonical_name) ==
    SelectSeq(all_quotes,
        LAMBDA quote :
            LET speaker == srv_normalize_name(quote.speaker)
            IN  Resolve(map, speaker) = canonical_name \/ speaker = canonical_name)

\* Lines 156-168: the scan of the person index.
RECURSIVE SearchPersons(_, _, _, _, _)
SearchPersons(persons, i, query, limit, results) ==
    IF i > Len(persons) THEN results
    ELSE LET person == persons[i]
             hit == \/ Contains(Upper(person.name), query)
                    \/ \E a \in 1..Len(person.aliases) :
                          Contains(Upper(person.aliases[a]), query)
             found == IF hit
                      THEN Append(results, [name |-> person.name,
                                            mentions |-> person.mentions])
                      ELSE results
         IN  IF Len(found) >= limit THEN found
             ELSE SearchPersons(persons, i + 1, query, limit, found)

\* _quotes_cache: None, or a list of rows.
NoCache == [loaded |-> FALSE, rows |-> <<>>]

\* A faulty variant: the early return of line 23 is missing.
MustLoadMut(cache) == TRUE
\* Line 23: whether load_quotes goes on to (re)build the cache.
MustLoad(cache) == ~cache.loaded

\* What the client gets: nothing when the handler raised (the connection is
\* closed without a response), else status, content type and CORS header.
NoResponse ==
    [sent |-> FALSE, status |-> 0, json |-> FALSE, cors |-> FALSE, body |-> <<>>]

\* Lines 73-81.
send_json_response(data, status) ==
    [sent |-> TRUE, status |-> status, json |-> TRUE, cors |-> TRUE, body |-> data]

\* SimpleHTTPRequestHandler.do_GET: a static file or an error page.
StaticResponse ==
    [sent |-> TRUE, status |-> 200, json |-> FALSE, cors |-> FALSE, body |-> <<>>]
NotFoundResponse ==
    [sent |-> TRUE, status |-> 404, json |-> FALSE, cors |-> FALSE, body |-> <<>>]

DEFAULT_LIMIT == <<53, 48>>     \* '50'
DEFAULT_OFFSET == <<48>>        \* '0'

\* The requests a client sends.
PersonValues == { Absent, Given(<<97>>), Given(<<88>>), Given(<<120, 32>>) }
                                          \* none, "a", "X", "x "
NumberValues == { Absent, Given(<<48>>), Given(<<49>>), Given(<<45, 49>>),
                  Given(<<97, 98, 99>>) }      \* none, "0", "1", "-1", "abc"
QueryValues == { Absent, Given(<<120>>), Given(<<32, 97>>) }   \* none, "x", " a"

\* One digit more than int() takes: INT_MAX_STR_DIGITS + 1 zeros.
LongDigits == [i \in 1..(INT_MAX_STR_DIGITS + 1) |-> 48]

NoRequest ==
    [path |-> "none", person |-> Absent, offset |-> Absent, limit |-> Absent,
     q |-> Absent]

Requests ==
    {[path |-> "/api/quotes", person |-> p, offset |-> o, limit |-> l, q |-> Absent] :
        p \in PersonValues, o \in NumberValues, l \in NumberValues}
    \cup
    {[path |-> "/api/search", person |-> Absent, offset |-> Absent, limit |-> l, q |-> q] :
        l \in NumberValues \cup {Given(LongDigits)}, q \in QueryValues}
    \cup
    {[path |-> "/network_viewer.html", person |-> Absent, offset |-> Absent,
      limit |-> Absent, q |-> Absent]}

\* quote_attribution_output/all_quotes.csv: a row is its speaker and the
\* rest of its cells, named by a number.
SpeakerCells == { <<97>>, <<88>>, <<98>> }      \* "a", "X", "b"
MaxQuotes == 2
QuoteRows(n) == {rows \in [1..n -> [speaker : SpeakerCells, id : 1..n]] :
                    \A i \in 1..n : rows[i].id = i}
QuoteCsvs ==
    {NoCsv} \cup
    {[exists |-> TRUE, rows |-> r] : r \in UNION {QuoteRows(n) : n \in 0..MaxQuotes}}

\* alias_mapping.csv as the server finds it.
SrvAliasCsvs ==
    { NoCsv,
      [exists |-> TRUE, rows |-> <<>>],
      [exists |-> TRUE, rows |-> <<[alias |-> <<97>>, canonical |-> <<88>>]>>],
      [exists |-> TRUE, rows |-> <<[alias |-> <<32, 97>>, canonical |-> <<88, 32>>],
                                   [alias |-> <<98>>, canonical |-> <<88>>]>>],
      [exists |-> TRUE, rows |-> <<[alias |-> <<97>>, canonical |-> <<88>>],
                                   [alias |-> <<88>>, canonical |-> <<98>>]>>] }

\* data/person_index.json as the server finds it.
NoIndexFile == [exists |-> FALSE, persons |-> <<>>]
IndexFiles ==
    { NoIndexFile,
      [exists |-> TRUE,
       persons |-> <<[name |-> <<88>>, mentions |-> 2, aliases |-> <<<<97>>>>],
                     [name |-> <<89, 120>>, mentions |-> 1, aliases |-> <<>>]>>] }

MaxRequests == 2

SrvInit ==
    /\ srv_pc = "listening"
    /\ quotes_csv \in QuoteCsvs
    /\ alias_csv \in SrvAliasCsvs
    /\ index_file \in IndexFiles
    /\ viewer_exists \in BOOLEAN
    /\ quotes_cache = NoCache
    /\ srv_opens = 0
    /\ srv_request = NoRequest
    /\ srv_response = NoResponse
    /\ srv_handled = 0

SrvIdle ==
    /\ srv_pc = "idle"
    /\ quotes_csv = NoCsv
    /\ index_file = NoIndexFile
    /\ viewer_exists = FALSE
    /\ quotes_cache = NoCache
    /\ srv_opens = 0
    /\ srv_request = NoRequest
    /\ srv_response = NoResponse
    /\ srv_handled = 0

srvFiles == <<quotes_csv, alias_csv, index_file, viewer_exists>>

\* The single-threaded server accepts the next request.
SrvReceive ==
    /\ srv_pc = "listening"
    /\ srv_handled < MaxRequests
    /\ \E r \in Requests : srv_request' = r
    /\ srv_response' = NoResponse
    /\ srv_pc' = "handling"
    /\ UNCHANGED <<srvFiles, quotes_cache, srv_opens, srv_handled>>

\* Lines 85-91: a parameter does not parse (the handler raises before any
\* response), or person is missing.
SrvQuotesRejected ==
    /\ srv_pc = "handling"
    /\ srv_request.path = "/api/quotes"
    /\ LET person == ParamOr(srv_request.person, <<>>)
           offset == ParseInt(ParamOr(srv_request.offset, DEFAULT_OFFSET))
           limit == ParseInt(ParamOr(srv_request.limit, DEFAULT_LIMIT))
       IN  /\ ~offset.ok \/ ~limit.ok \/ person = <<>>
           /\ srv_response' =
                 IF ~offset.ok \/ ~limit.ok THEN NoResponse
                 ELSE send_json_response(<<>>, 400)
    /\ srv_pc' = "handled"
    /\ UNCHANGED <<srvFiles, quotes_cache, srv_opens, srv_request, srv_handled>>

\* Lines 125-135.
QuotesPage(all_quotes, csv, person, offset, limit) ==
    LET map == SrvAliasMap(csv)
        search_name == srv_normalize_name(person)
        matching == MatchingQuotes(all_quotes, map, Resolve(map, search_name))
    IN  [total |-> Len(matching),
         quotes |-> PySlice(matching, offset, offset + limit)]

\* Lines 93-135, with load_quotes (lines 20-37): the cache is returned as it
\* is, or built from the CSV; reading the CSV may raise after any number of
\* rows, and then the handler raises with it.
SrvQuotes ==
    /\ srv_pc = "handling"
    /\ srv_request.path = "/api/quotes"
    /\ LET person == ParamOr(srv_request.person, <<>>)
           offset == ParseInt(ParamOr(srv_request.offset, DEFAULT_OFFSET))
           limit == ParseInt(ParamOr(srv_request.limit, DEFAULT_LIMIT))
       IN  /\ offset.ok /\ limit.ok /\ person # <<>>
           /\ \/ /\ ~MustLoad(quotes_cache)
                 /\ UNCHANGED <<quotes_cache, srv_opens>>
                 /\ srv_response' = send_json_response(
                        QuotesPage(quotes_cache.rows, alias_csv, person,
                                   offset.value, limit.value), 200)
              \/ /\ MustLoad(quotes_cache)
                 /\ ~quotes_csv.exists
                 /\ quotes_cache' = [loaded |-> TRUE, rows |-> <<>>]
                 /\ UNCHANGED srv_opens
                 /\ srv_response' = send_json_response(
                        QuotesPage(<<>>, alias_csv, person,
                                   offset.value, limit.value), 200)
              \/ /\ MustLoad(quotes_cache)
                 /\ quotes_csv.exists
                 /\ srv_opens' = srv_opens + 1
                 /\ quotes_cache' = [loaded |-> TRUE, rows |-> quotes_csv.rows]
                 /\ srv_response' = send_json_response(
                        QuotesPage(quotes_csv.rows, alias_csv, person,
                                   offset.value, limit.value), 200)
              \/ /\ MustLoad(quotes_cache)
                 /\ quotes_csv.exists
                 /\ srv_opens' = srv_opens + 1
                 /\ \E k \in 0..Len(quotes_csv.rows) :
                       quotes_cache' = [loaded |-> TRUE,
                                        rows |-> SubSeq(quotes_csv.rows, 1, k)]
                 /\ srv_response' = NoResponse
    /\ srv_pc' = "handled"
    /\ UNCHANGED <<srvFiles, srv_request, srv_handled>>

\* Lines 137-170.
SrvSearch ==
    /\ srv_pc = "handling"
    /\ srv_request.path = "/api/search"
    /\ LET query == Strip(Upper(ParamOr(srv_request.q, <<>>)))
           limit == ParseInt(ParamOr(srv_request.limit, DEFAULT_LIMIT))
       IN  srv_response' =
              IF ~limit.ok THEN NoResponse
              ELSE IF query = <<>> THEN send_json_response(<<>>, 200)
              ELSE IF ~index_file.exists THEN send_json_response(<<>>, 500)
              ELSE send_json_response(
                      SearchPersons(index_file.persons, 1, query, limit.value, <<>>),
                      200)
    /\ srv_pc' = "handled"
    /\ UNCHANGED <<srvFiles, quotes_cache, srv_opens, srv_request, srv_handled>>

\* Lines 69-71: the file is sent, or send_error answers 404 with an HTML
\* page when it is not there.
SrvStatic ==
    /\ srv_pc = "handling"
    /\ srv_request.path \notin {"/api/quotes", "/api/search"}
    /\ srv_response' = IF viewer_exists THEN StaticResponse ELSE NotFoundResponse
    /\ srv_pc' = "handled"
    /\ UNCHANGED <<srvFiles, quotes_cache, srv_opens, srv_request, srv_handled>>

\* The request is over; the server waits for the next one.
SrvDone ==
    /\ srv_pc = "handled"
    /\ srv_request' = NoRequest
    /\ srv_response' = NoResponse
    /\ srv_handled' = srv_handled + 1
    /\ srv_pc' = "listening"
    /\ UNCHANGED <<srvFiles, quotes_cache, srv_opens>>

(***************************************************************************)
(* download_epstein_pdfs.py                                                *)
(***************************************************************************)

\* The first position at or after from where s holds one of chars, or 0.
RECURSIVE FindAny(_, _, _)
FindAny(s, chars, from) ==
    IF from > Len(s) THEN 0
    ELSE IF s[from] \in chars THEN from
    ELSE FindAny(s, chars, from + 1)

\* The last position where s holds c, or 0.
RECURSIVE RFind(_, _, _)
RFind(s, c, upto) ==
    IF upto < 1 THEN 0
    ELSE IF s[upto] = c THEN upto
    ELSE RFind(s, c, upto - 1)

\* s.startswith(prefix)
StartsWith(s, prefix) ==
    Len(s) >= Len(prefix) /\ SubSeq(s, 1, Len(prefix)) = prefix

\* The value of a hexadecimal digit, -1 for any other character.
HexVal(c) ==
    IF c \in 48..57 THEN c - 48
    ELSE IF c \in 65..70 THEN c - 55
    ELSE IF c \in 97..102 THEN c - 87
    ELSE -1

\* bytes.decode("utf-8", "replace"): every well-formed sequence gives its
\* character; every longest start of a sequence that is not completed gives
\* U+FFFD, and so does every byte that can start none.
RECURSIVE Utf8Decode(_)
Utf8Decode(b) ==
    IF b = <<>> THEN <<>>
    ELSE LET b1 == b[1]
             n == Len(b)
             need == IF b1 < 128 THEN 1
                     ELSE IF b1 \in 194..223 THEN 2
                     ELSE IF b1 \in 224..239 THEN 3
                     ELSE IF b1 \in 240..244 THEN 4
                     ELSE 0
             lo2 == IF b1 = 224 THEN 160 ELSE IF b1 = 240 THEN 144 ELSE 128
             hi2 == IF b1 = 237 THEN 159 ELSE IF b1 = 244 THEN 143 ELSE 191
             ok2 == n >= 2 /\ b[2] \in lo2..hi2
             ok3 == ok2 /\ n >= 3 /\ b[3] \in 128..191
             ok4 == ok3 /\ n >= 4 /\ b[4] \in 128..191
         IN  IF need = 1 THEN <<b1>> \o Utf8Decode(Tail(b))
             ELSE IF need = 2 /\ ok2
             THEN <<(b1 - 192) * 64 + (b[2] - 128)>> \o Utf8Decode(SubSeq(b, 3, n))
             ELSE IF need = 3 /\ ok3
             THEN <<(b1 - 224) * 4096 + (b[2] - 128) * 64 + (b[3] - 128)>>
                  \o Utf8Decode(SubSeq(b, 4, n))
             ELSE IF need = 4 /\ ok4
             THEN <<(b1 - 240) * 262144 + (b[2] - 128) * 4096
                      + (b[3] - 128) * 64 + (b[4] - 128)>>
                  \o Utf8Decode(SubSeq(b, 5, n))
             ELSE LET used == IF need = 4 /\ ok3 THEN 3
                              ELSE IF need >= 3 /\ ok2 THEN 2
                              ELSE 1
                  IN  <<65533>> \o Utf8Decode(SubSeq(b, used + 1, n))

\* urllib.parse.unquote_to_bytes of ASCII text: "%" and two hexadecimal
\* digits stand for the byte of that value; any other "%" stays.
RECURSIVE UnquoteToBytes(_)
UnquoteToBytes(s) ==
    IF s = <<>> THEN <<>>
    ELSE IF /\ Head(s) = 37
            /\ Len(s) >= 3
            /\ HexVal(s[2]) >= 0
            /\ HexVal(s[3]) >= 0
         THEN <<16 * HexVal(s[2]) + HexVal(s[3])>>
              \o UnquoteToBytes(SubSeq(s, 4, Len(s)))
         ELSE <<Head(s)>> \o UnquoteToBytes(Tail(s))

\* The length of the longest start of s that is ASCII.
RECURSIVE AsciiRun(_)
AsciiRun(s) == IF s = <<>> \/ Head(s) >= 128 THEN 0 ELSE 1 + AsciiRun(Tail(s))

\* urllib.parse.unquote: every run of ASCII characters is unquoted to bytes
\* and decoded as UTF-8; the other characters stay.
RECURSIVE Unquote(_)
Unquote(s) ==
    IF s = <<>> THEN <<>>
    ELSE IF Head(s) >= 128 THEN <<Head(s)>> \o Unquote(Tail(s))
    ELSE LET n == AsciiRun(s)
         IN  Utf8Decode(UnquoteToBytes(SubSeq(s, 1, n)))
             \o Unquote(SubSeq(s, n + 1, Len(s)))

IsLetter(c) == c \in 65..90 \/ c \in 97..122
IsSchemeChar(c) == IsLetter(c) \/ c \in 48..57 \/ c \in {43, 45, 46}

\* str.lstrip of the C0 control characters and the space.
RECURSIVE LStripControl(_)
LStripControl(s) ==
    IF s # <<>> /\ Head(s) <= 32 THEN LStripControl(Tail(s)) ELSE s

\* urlsplit: the URL without its leading control characters and spaces,
\* and without any tab, line feed and carriage return.
CleanUrl(url) == SelectSeq(LStripControl(url), LAMBDA c : c \notin {9, 10, 13})

\* urlsplit: the text before the first ":" is a scheme.
HasScheme(url) ==
    LET colon == FindAny(url, {58}, 1)
    IN  /\ colon > 1
        /\ IsLetter(url[1])
        /\ \A i \in 1..(colon - 1) : IsSchemeChar(url[i])

\* urlsplit: the scheme, in lower case; empty when there is none.
SchemeOf(url) ==
    IF HasScheme(url) THEN Lower(SubSeq(url, 1, FindAny(url, {58}, 1) - 1))
    ELSE <<>>

\* urlsplit: what follows "scheme:".
AfterScheme(url) ==
    IF HasScheme(url) THEN SubSeq(url, FindAny(url, {58}, 1) + 1, Len(url))
    ELSE url

\* urlsplit: the netloc of "//netloc", which ends at the first "/", "?" or
\* "#".
NetlocOf(rest) ==
    IF StartsWith(rest, <<47, 47>>)
    THEN LET end == FindAny(rest, {47, 63, 35}, 3)
         IN  SubSeq(rest, 3, IF end = 0 THEN Len(rest) ELSE end - 1)
    ELSE <<>>

\* urlsplit: what follows "//netloc".
AfterNetloc(rest) ==
    IF StartsWith(rest, <<47, 47>>)
    THEN LET end == FindAny(rest, {47, 63, 35}, 3)
         IN  IF end = 0 THEN <<>> ELSE SubSeq(rest, end, Len(rest))
    ELSE rest

\* str.split(c)
RECURSIVE SplitOn(_, _)
SplitOn(s, c) ==
    LET at == FindAny(s, {c}, 1)
    IN  IF at = 0 THEN <<s>>
        ELSE <<SubSeq(s, 1, at - 1)>> \o SplitOn(SubSeq(s, at + 1, Len(s)), c)

\* ipaddress: an octet is a decimal number up to 255 of one to three ASCII
\* digits, without a leading zero.
ValidOctet(octet) ==
    /\ octet # <<>>
    /\ \A i \in 1..Len(octet) : octet[i] \in 48..57
    /\ Len(octet) <= 3
    /\ octet = <<48>> \/ octet[1] # 48
    /\ DigitsValue(octet) <= 255

\* ipaddress.IPv4Address accepts the text.
IsIPv4(text) ==
    LET octets == SplitOn(text, 46)
    IN  Len(octets) = 4 /\ \A i \in 1..4 : ValidOctet(octets[i])

\* ipaddress: a hextet is one to four hexadecimal digits.
ValidHextet(hextet) ==
    /\ hextet # <<>>
    /\ Len(hextet) <= 4
    /\ \A i \in 1..Len(hextet) : HexVal(hextet[i]) >= 0



\* ipaddress: the parts between the colons; an IPv4 address at the end is
\* replaced by the two hextets of its value.
HextetsOf(raw) ==
    IF FindAny(raw[Len(raw)], {46}, 1) # 0
    THEN SubSeq(raw, 1, Len(raw) - 1) \o << <<48>>, <<48>> >>
    ELSE raw

\* ipaddress: the places of "::", an empty part that is not the first and
\* not the last.
SkipsOf(parts) == {i \in 2..(Len(parts) - 1) : parts[i] = <<>>}

\* ipaddress: the numbers of parts before and after the "::" at skip.
PartsHi(parts, skip) == IF parts[1] = <<>> THEN skip - 2 ELSE skip - 1
PartsLo(parts, skip) ==
    IF parts[Len(parts)] = <<>> THEN Len(parts) - skip - 1 ELSE Len(parts) - skip

\* ipaddress: the parts around a "::" are accepted: an empty first or last
\* part belongs to the "::", at least one hextet is left out, and the others
\* are hextets.
ValidAround(parts, parts_hi, parts_lo) ==
    /\ parts[1] = <<>> => parts_hi = 0
    /\ parts[Len(parts)] = <<>> => parts_lo = 0
    /\ 8 - (parts_hi + parts_lo) >= 1
    /\ \A i \in 1..parts_hi : ValidHextet(parts[i])
    /\ \A i \in (Len(parts) - parts_lo + 1)..Len(parts) : ValidHextet(parts[i])

\* ipaddress: the parts are eight hextets, one run of them left out as "::"
\* at most.
ValidHextets(parts) ==
    /\ Len(parts) <= 8 + 1
    /\ Cardinality(SkipsOf(parts)) <= 1
    /\ IF SkipsOf(parts) # {}
       THEN \E skip \in SkipsOf(parts) :
                ValidAround(parts, PartsHi(parts, skip), PartsLo(parts, skip))
       ELSE /\ Len(parts) = 8
            /\ \A i \in 1..Len(parts) : ValidHextet(parts[i])

\* ipaddress: the parts between the colons are those of an address: three
\* at least, a last part with a "." being an IPv4 address.
ValidParts(raw) ==
    /\ Len(raw) >= 3
    /\ FindAny(raw[Len(raw)], {46}, 1) # 0 => IsIPv4(raw[Len(raw)])
    /\ ValidHextets(HextetsOf(raw))

\* ipaddress: _ip_int_from_string of IPv6Address accepts the text.
IsIPv6Text(text) == text # <<>> /\ ValidParts(SplitOn(text, 58))

\* ipaddress.IPv6Address accepts the text: an address, then nothing or "%"
\* and a scope id that is not empty and has no "%".
IsIPv6(text) ==
    LET pct == FindAny(text, {37}, 1)
    IN  IF pct = 0 THEN IsIPv6Text(text)
        ELSE /\ pct < Len(text)
             /\ FindAny(text, {37}, pct + 1) = 0
             /\ IsIPv6Text(SubSeq(text, 1, pct - 1))

\* _check_bracketed_host accepts what is between the brackets: "v", then
\* hexadecimal digits, a "." and more; or an IPv6 address.
ValidBracketedHost(hostname) ==
    IF StartsWith(hostname, <<118>>)
    THEN LET dot == FindAny(hostname, {46}, 1)
         IN  /\ dot >= 3
             /\ \A i \in 2..(dot - 1) : HexVal(hostname[i]) >= 0
             /\ Len(hostname) > dot
    ELSE IsIPv6(hostname)

\* netloc.partition("[")[2].partition("]")[0]
BracketedHost(netloc) ==
    LET open == FindAny(netloc, {91}, 1)
        close == FindAny(netloc, {93}, open + 1)
    IN  SubSeq(netloc, open + 1, IF close = 0 THEN Len(netloc) ELSE close - 1)

\* _checknetloc: the characters whose NFKC form holds "/", "?", "#", "@" or
\* ":".
NfkcDelimiters ==
    { 8263, 8264, 8265, 8448, 8449, 8453, 8454, 10868, 65043, 65046, 65109,
      65110, 65119, 65131, 65283, 65295, 65306, 65311, 65312 }

\* urlsplit raises ValueError for the netloc: one bracket without the
\* other, a bracketed host that is not valid, or a netloc that NFKC turns
\* into another one.
NetlocRaises(netloc) ==
    \/ (FindAny(netloc, {91}, 1) # 0) # (FindAny(netloc, {93}, 1) # 0)
    \/ /\ FindAny(netloc, {91}, 1) # 0
       /\ FindAny(netloc, {93}, 1) # 0
       /\ ~ValidBracketedHost(BracketedHost(netloc))
    \/ FindAny(netloc, NfkcDelimiters, 1) # 0

\* urlsplit: the path ends where the query ("?") or the fragment ("#") starts.
BeforeQuery(rest) ==
    LET end == FindAny(rest, {63, 35}, 1)
    IN  IF end = 0 THEN rest ELSE SubSeq(rest, 1, end - 1)

\* urlparse's uses_params: "", ftp, hdl, prospero, http, imap, https, shttp,
\* rtsp, rtsps, rtspu, sip, sips, mms, sftp and tel.
uses_params ==
    { <<>>,
      <<102, 116, 112>>,
      <<104, 100, 108>>,
      <<112, 114, 111, 115, 112, 101, 114, 111>>,
      <<104, 116, 116, 112>>,
      <<105, 109, 97, 112>>,
      <<104, 116, 116, 112, 115>>,
      <<115, 104, 116, 116, 112>>,
      <<114, 116, 115, 112>>,
      <<114, 116, 115, 112, 115>>,
      <<114, 116, 115, 112, 117>>,
      <<115, 105, 112>>,
      <<115, 105, 112, 115>>,
      <<109, 109, 115>>,
      <<115, 102, 116, 112>>,
      <<116, 101, 108>> }

\* _splitparams: the parameters of the last path segment, from its first
\* ";", are not part of the path.
BeforeParams(path) ==
    LET semi == FindAny(path, {59}, RFind(path, 47, Len(path)) + 1)
    IN  IF semi = 0 THEN path ELSE SubSeq(path, 1, semi - 1)

\* What urlparse gives: ValueError, or a result with a path.
UrlRaised == [raised |-> TRUE, path |-> <<>>]
UrlParsed(path) == [raised |-> FALSE, path |-> path]

\* urlparse of a URL that urlsplit has cleaned: raised, or .path.
ParseClean(clean) ==
    IF NetlocRaises(NetlocOf(AfterScheme(clean))) THEN UrlRaised
    ELSE IF SchemeOf(clean) \in uses_params
    THEN UrlParsed(BeforeParams(BeforeQuery(AfterNetloc(AfterScheme(clean)))))
    ELSE UrlParsed(BeforeQuery(AfterNetloc(AfterScheme(clean))))

\* urlparse(url): raised, or .path.
UrlPath(url) == ParseClean(CleanUrl(url))

\* str.lstrip("/")
RECURSIVE LStripSlash(_)
LStripSlash(s) ==
    IF s # <<>> /\ Head(s) = 47 THEN LStripSlash(Tail(s)) ELSE s

\* str.split("/")
RECURSIVE SplitSlash(_)
SplitSlash(s) ==
    LET slash == FindAny(s, {47}, 1)
    IN  IF slash = 0 THEN <<s>>
        ELSE <<SubSeq(s, 1, slash - 1)>> \o SplitSlash(SubSeq(s, slash + 1, Len(s)))

\* Line 106: every character outside a-z, A-Z, 0-9, ".", "_", "(", ")", " "
\* and "-" becomes "_".
SanitizeChar(c) ==
    IF IsLetter(c) \/ c \in 48..57 \/ c \in {46, 95, 40, 41, 32, 45} THEN c ELSE 95
Sanitize(part) == [i \in 1..Len(part) |-> SanitizeChar(part[i])]

\* Path(*parts): empty components and "." components are dropped.
PathOf(parts) == SelectSeq(parts, LAMBDA p : p # <<>> /\ p # <<46>>)

\* Lines 100-109: the components of the local path for what urlparse gave.
LocalPath(parsed) ==
    IF parsed.raised THEN UrlRaised
    ELSE UrlParsed(PathOf([part \in 1..Len(SplitSlash(LStripSlash(parsed.path))) |->
                              Sanitize(SplitSlash(LStripSlash(parsed.path))[part])]))

\* Lines 96-109.  The local path is given by its components below
\* base_output_dir; the empty path is base_output_dir itself.  The call
\* raises when urlparse does.
url_to_local_path(url) == LocalPath(UrlPath(Unquote(url)))

\* BASE_URL (line 26) and the FOIA listing page (lines 32 and 276).
BASE_URL ==
    <<104, 116, 116, 112, 115, 58, 47, 47, 119, 119, 119, 46, 106, 117, 115, 116,
      105, 99, 101, 46, 103, 111, 118>>
FOIA_URL == BASE_URL \o <<47, 101, 112, 115, 116, 101, 105, 110, 47, 102, 111, 105, 97>>

\* Line 148: BASE_URL + SECTIONS["court_records"].
COURT_URL ==
    BASE_URL \o <<47, 101, 112, 115, 116, 101, 105, 110, 47, 99, 111, 117, 114, 116, 45, 114, 101, 99, 111, 114, 100, 115>>

\* Line 164: the section path of a sub-page, "/epstein/court-records/".
COURT_PATH ==
    <<47, 101, 112, 115, 116, 101, 105, 110, 47, 99, 111, 117, 114, 116, 45, 114, 101, 99, 111, 114, 100, 115, 47>>

\* Line 186: "?page=", the mark of a pagination link.
PAGE_MARK == <<63, 112, 97, 103, 101, 61>>

\* safe_read_html's max_retries (line 45).
max_retries == 3

\* How one requests.get call ends: answered 200, answered with another
\* status, or with an exception.
HttpAnswers == {"200", "404", "raise"}

\* The links a listing page may hold: "/a/1.pdf", "b/2.PDF",
\* "http://h/c.pdf" and "/a/index.html".
PageHrefs ==
    { <<47, 97, 47, 49, 46, 112, 100, 102>>,
      <<98, 47, 50, 46, 80, 68, 70>>,
      <<104, 116, 116, 112, 58, 47, 47, 104, 47, 99, 46, 112, 100, 102>>,
      <<47, 97, 47, 105, 110, 100, 101, 120, 46, 104, 116, 109, 108>> }

MaxHrefs == 2

\* The pages: every sequence of up to MaxHrefs links.
Pages == UNION {[1..n -> PageHrefs] : n \in 0..MaxHrefs}

\* None, and a parsed page.
NoPage == [loaded |-> FALSE, hrefs |-> <<>>]
PageOf(hrefs) == [loaded |-> TRUE, hrefs |-> hrefs]

\* Lines 64-72: the absolute URL of a link that ends in ".pdf".
AbsoluteLink(href, base_url) ==
    IF StartsWith(href, <<104, 116, 116, 112>>) THEN href
    ELSE IF StartsWith(href, <<47>>) THEN base_url \o href
    ELSE base_url \o <<47>> \o href

\* Lines 58-72: the list pdf_links before it is made a set.
RECURSIVE PdfLinksOf(_, _)
PdfLinksOf(hrefs, base_url) ==
    IF hrefs = <<>> THEN <<>>
    ELSE (IF EndsWith(Lower(Head(hrefs)), <<46, 112, 100, 102>>)
          THEN <<AbsoluteLink(Head(hrefs), base_url)>>
          ELSE <<>>) \o PdfLinksOf(Tail(hrefs), base_url)

\* Lines 58-74.
extract_pdf_links(page, base_url) ==
    IF ~page.loaded THEN {<<>>}
    ELSE ListOfSet(PdfLinksOf(page.hrefs, base_url))

\* Lines 82-91: the absolute URLs of the links that hold section_path.
RECURSIVE SubpageLinksOf(_, _, _)
SubpageLinksOf(hrefs, section_path, base_url) ==
    IF hrefs = <<>> THEN <<>>
    ELSE (IF Contains(Head(hrefs), section_path)
          THEN <<AbsoluteLink(Head(hrefs), base_url)>>
          ELSE <<>>) \o SubpageLinksOf(Tail(hrefs), section_path, base_url)

\* Lines 77-93.
extract_subpage_links(page, section_path, base_url) ==
    IF ~page.loaded THEN {<<>>}
    ELSE ListOfSet(SubpageLinksOf(page.hrefs, section_path, base_url))

\* Lines 187-188: the URL of a pagination link.
PagedUrl(href) ==
    IF StartsWith(href, <<104, 116, 116, 112>>) THEN href ELSE BASE_URL \o href

\* str() of a number that is not negative, as the f-strings format it.
RECURSIVE IntToStr(_)
IntToStr(n) == IF n < 10 THEN <<48 + n>> ELSE IntToStr(n \div 10) \o <<48 + (n % 10)>>

\* Line 208: BASE_URL + SECTIONS["doj_disclosures"].
DOJ_URL ==
    BASE_URL \o <<47, 101, 112, 115, 116, 101, 105, 110, 47, 100, 111, 106, 45,
                  100, 105, 115, 99, 108, 111, 115, 117, 114, 101, 115>>

\* Line 224: f"{BASE_URL}/epstein/doj-disclosures/data-set-{i}-files".
DataSetUrl(i) ==
    DOJ_URL \o <<47, 100, 97, 116, 97, 45, 115, 101, 116, 45>> \o IntToStr(i)
            \o <<45, 102, 105, 108, 101, 115>>

\* Line 245: f"{ds_url}?page={page_num}".
PageUrl(i, n) == DataSetUrl(i) \o <<63, 112, 97, 103, 101, 61>> \o IntToStr(n)

\* Line 259: [p for p in paged_pdfs if p not in all_pdf_links].
NewPdfs(paged_pdfs, links) ==
    SelectSeq(paged_pdfs, LAMBDA p : \A k \in 1..Len(links) : links[k] # p)

\* A faulty variant: the page number is not advanced.
NextPageMut(n) == n
\* Line 265: page_num += 1.
NextPage(n) == n + 1

\* The PDF URLs of the saved list: "http://h/a/1.pdf", "http://h/b/%31.pdf",
\* "http://h/a/1.pdf/2.pdf", "http://h/a/1&.pdf", "http://h/a/1+.pdf",
\* "http://h/%2e%2e/1.pdf" and "http://[h/a.pdf".
PdfUrls ==
    << <<104, 116, 116, 112, 58, 47, 47, 104, 47, 97, 47, 49, 46, 112, 100, 102>>,
       <<104, 116, 116, 112, 58, 47, 47, 104, 47, 98, 47, 37, 51, 49, 46, 112, 100, 102>>,
       <<104, 116, 116, 112, 58, 47, 47, 104, 47, 97, 47, 49, 46, 112, 100, 102, 47,
         50, 46, 112, 100, 102>>,
       <<104, 116, 116, 112, 58, 47, 47, 104, 47, 97, 47, 49, 38, 46, 112, 100, 102>>,
       <<104, 116, 116, 112, 58, 47, 47, 104, 47, 97, 47, 49, 43, 46, 112, 100, 102>>,
       <<104, 116, 116, 112, 58, 47, 47, 104, 47, 37, 50, 101, 37, 50, 101, 47, 49, 46,
         112, 100, 102>>,
       <<104, 116, 116, 112, 58, 47, 47, 91, 104, 47, 97, 46, 112, 100, 102>> >>

MaxUrls == 2

\* The saved lists: every sequence of up to MaxUrls of the URLs.
UrlLists ==
    UNION {{[i \in 1..n |-> PdfUrls[pick[i]]] : pick \in [1..n -> 1..Len(PdfUrls)]} :
              n \in 0..MaxUrls}

\* The PDF URLs the scrapes of main may find: BASE_URL + "/a/1.pdf",
\* BASE_URL + "/b/2.PDF" and "http://h/c.pdf", the links of PageHrefs, and
\* "http://[h/a.pdf", a link that is no URL.
ScrapedUrls ==
    << BASE_URL \o <<47, 97, 47, 49, 46, 112, 100, 102>>,
       BASE_URL \o <<47, 98, 47, 50, 46, 80, 68, 70>>,
       <<104, 116, 116, 112, 58, 47, 47, 104, 47, 99, 46, 112, 100, 102>>,
       <<104, 116, 116, 112, 58, 47, 47, 91, 104, 47, 97, 46, 112, 100, 102>> >>

\* response.content for a URL: the URL's place among the URLs of the model;
\* 0 is the content of a file that was on the disk before.
ContentOf(url) ==
    CHOOSE k \in 1..(Len(PdfUrls) + Len(ScrapedUrls)) :
        (PdfUrls \o ScrapedUrls)[k] = url

\* The disk below base_output_dir: path -> directory or file with content.
\* The empty path is base_output_dir itself.
Dir == [dir |-> TRUE, content |-> 0]
FileWith(content) == [dir |-> FALSE, content |-> content]

PathA == <<<<97>>>>
PathA1 == <<<<97>>, <<49, 46, 112, 100, 102>>>>

\* The disks a run may find: nothing but the directory; the file a/1.pdf of
\* an earlier run; a directory where a/1.pdf should be; a file named a.
Disks ==
    { (<<>> :> Dir),
      (<<>> :> Dir) @@ (PathA :> Dir) @@ (PathA1 :> FileWith(0)),
      (<<>> :> Dir) @@ (PathA :> Dir) @@ (PathA1 :> Dir),
      (<<>> :> Dir) @@ (PathA :> FileWith(0)) }

\* pdf_urls.json and pdf_urls.csv, the lists main writes into the output
\* directory; what pdf_urls.json holds is kept in urls_json, and -1 stands
\* for the text of either file.
JSON_PATH == << <<112, 100, 102, 95, 117, 114, 108, 115, 46, 106, 115, 111, 110>> >>
CSV_PATH == << <<112, 100, 102, 95, 117, 114, 108, 115, 46, 99, 115, 118>> >>
UrlFiles == (JSON_PATH :> FileWith(-1)) @@ (CSV_PATH :> FileWith(-1))

\* Path.parent
Parent(path) == IF path = <<>> THEN <<>> ELSE SubSeq(path, 1, Len(path) - 1)

\* Path.exists(): a file or a directory is there.
Exists(fs, path) == path \in DOMAIN fs

\* Path.mkdir(parents=True, exist_ok=True) raises when the path or one of
\* the directories above it is a file.
MkdirRaises(fs, path) ==
    \E k \in 0..Len(path) :
        /\ SubSeq(path, 1, k) \in DOMAIN fs
        /\ ~fs[SubSeq(path, 1, k)].dir

\* Path.mkdir(parents=True, exist_ok=True): the path and the directories
\* above it exist afterwards.
Mkdir(fs, path) ==
    [p \in DOMAIN fs \cup {SubSeq(path, 1, k) : k \in 0..Len(path)} |->
        IF p \in DOMAIN fs THEN fs[p] ELSE Dir]

\* Path.write_bytes raises when the path is a directory.
WriteRaises(fs, path) == path \in DOMAIN fs /\ fs[path].dir

\* Path.write_bytes
WriteBytes(fs, path, content) ==
    [p \in DOMAIN fs \cup {path} |-> IF p = path THEN FileWith(content) ELSE fs[p]]

\* A faulty variant: a file that is there is fetched again.
DownloadToMut(local, url, fs, overwrite, answer) ==
    LET output_path == local.path
        made == Mkdir(fs, Parent(output_path))
        none == [raised |-> FALSE, requested |-> FALSE, success |-> FALSE,
                 skipped |-> FALSE, path |-> output_path, disk |-> fs]
    IN  IF local.raised \/ MkdirRaises(fs, Parent(output_path))
        THEN [none EXCEPT !.raised = TRUE]
        ELSE IF Exists(made, output_path) /\ made[output_path].dir
        THEN [none EXCEPT !.success = TRUE, !.skipped = TRUE, !.disk = made]
        ELSE IF answer = "200" /\ ~WriteRaises(made, output_path)
        THEN [none EXCEPT !.requested = TRUE, !.success = TRUE,
                          !.disk = WriteBytes(made, output_path, ContentOf(url))]
        ELSE [none EXCEPT !.requested = TRUE, !.disk = made]
\* Lines 115-137: download_pdf once the local path is known, or once
\* url_to_local_path has raised.
DownloadTo(local, url, fs, overwrite, answer) ==
    LET output_path == local.path
        made == Mkdir(fs, Parent(output_path))
        none == [raised |-> FALSE, requested |-> FALSE, success |-> FALSE,
                 skipped |-> FALSE, path |-> output_path, disk |-> fs]
    IN  IF local.raised \/ MkdirRaises(fs, Parent(output_path))
        THEN [none EXCEPT !.raised = TRUE]
        ELSE IF Exists(made, output_path) /\ ~overwrite
        THEN [none EXCEPT !.success = TRUE, !.skipped = TRUE, !.disk = made]
        ELSE IF answer = "200" /\ ~WriteRaises(made, output_path)
        THEN [none EXCEPT !.requested = TRUE, !.success = TRUE,
                          !.disk = WriteBytes(made, output_path, ContentOf(url))]
        ELSE [none EXCEPT !.requested = TRUE, !.disk = made]

\* Lines 112-137.  The result tells whether the call raised (in
\* url_to_local_path or in mkdir, both outside the try), whether a request
\* was sent, the dict it returned, the local path and the disk.
download_pdf(url, fs, overwrite, answer) ==
    DownloadTo(url_to_local_path(url), url, fs, overwrite, answer)

MaxRuns == 2

NoUrlFile == [exists |-> FALSE, all |-> <<>>]
NoCounts == [success |-> 0, skipped |-> 0, failed |-> 0]

DlInitSaved ==
    /\ dl_pc = "saved"
    /\ urls_json \in {NoUrlFile} \cup {[exists |-> TRUE, all |-> l] : l \in UrlLists}
    /\ disk \in {IF urls_json.exists THEN d @@ UrlFiles ELSE d : d \in Disks}
    /\ site = <<>>
    /\ flaky = {}
    /\ sr_url = <<>>

MaxFoiaHrefs == 1

\* The FOIA listing pages: every sequence of up to MaxFoiaHrefs links.
FoiaPages == UNION {[1..n -> PageHrefs] : n \in 0..MaxFoiaHrefs}

\* Links of the pages: "/a/1.pdf", "b/2.PDF" and "http://[h/a.pdf", a link
\* that is no URL; "/epstein/court-records/x", the link of a sub-page, and
\* "/epstein/court-records/x?page=1", a pagination link of it.
HREF_A == <<47, 97, 47, 49, 46, 112, 100, 102>>
HREF_B == <<98, 47, 50, 46, 80, 68, 70>>
HREF_BAD == <<104, 116, 116, 112, 58, 47, 47, 91, 104, 47, 97, 46, 112, 100, 102>>
HREF_SUB == COURT_PATH \o <<120>>
HREF_PAGED == HREF_SUB \o PAGE_MARK \o <<49>>

\* The sites with a Court Records section: a page with one PDF; a page with
\* a PDF and the link that is no URL; a page with a sub-page that holds a
\* PDF and a pagination link, whose page holds a PDF and the same link; the
\* same page with the sub-page listed twice and the pagination link there
\* as well.
CourtSites ==
    { (COURT_URL :> <<HREF_A>>),
      (COURT_URL :> <<HREF_A, HREF_BAD>>),
      (COURT_URL :> <<HREF_SUB>>)
          @@ (BASE_URL \o HREF_SUB :> <<HREF_B, HREF_PAGED>>)
          @@ (BASE_URL \o HREF_PAGED :> <<HREF_A, HREF_PAGED>>),
      (COURT_URL :> <<HREF_SUB, HREF_PAGED, HREF_SUB>>)
          @@ (BASE_URL \o HREF_SUB :> <<HREF_PAGED, HREF_B>>)
          @@ (BASE_URL \o HREF_PAGED :> <<HREF_B>>) }

\* The sites with a DOJ Disclosures section: a page with one PDF and no data
\* set; a page without a PDF, a first data set with two more pages, the
\* second of them with nothing new, and a second data set without a PDF.
DojSites ==
    { (DOJ_URL :> <<HREF_A>>),
      (DOJ_URL :> <<>>)
          @@ (DataSetUrl(1) :> <<HREF_A>>)
          @@ (PageUrl(1, 1) :> <<HREF_B>>)
          @@ (PageUrl(1, 2) :> <<HREF_B>>)
          @@ (DataSetUrl(2) :> <<>>) }

\* The web as a run of main finds it.  A request for a URL of flaky ends in
\* any way; any other request is answered 200 when the site has the page
\* and 404 when it does not.
Webs ==
    {[site |-> (FOIA_URL :> hrefs), flaky |-> {FOIA_URL}] : hrefs \in FoiaPages}
    \cup {[site |-> (COURT_URL :> <<HREF_A>>) @@ (FOIA_URL :> <<HREF_A, HREF_B>>),
           flaky |-> {FOIA_URL}]}
    \cup {[site |-> s, flaky |-> {}] : s \in CourtSites \cup DojSites}
    \cup {[site |-> s, flaky |-> {BASE_URL \o HREF_SUB}] :
             s \in {c \in CourtSites : BASE_URL \o HREF_SUB \in DOMAIN c}}
    \cup {[site |-> s, flaky |-> {PageUrl(1, 1)}] :
             s \in {d \in DojSites : PageUrl(1, 1) \in DOMAIN d}}

\* Lines 331-347 and 146-149: main has made the output directory and
\* scrape_court_records calls safe_read_html for its main page.
DlInitMain ==
    /\ dl_pc = "court"
    /\ urls_json = NoUrlFile
    /\ disk = (<<>> :> Dir)
    /\ \E web \in Webs : site = web.site /\ flaky = web.flaky
    /\ sr_url = COURT_URL

DlInit ==
    /\ DlInitSaved \/ DlInitMain
    /\ sr_attempt = 0
    /\ main_page = NoPage
    /\ subpages = <<>>
    /\ sub_links = <<>>
    /\ court_pdfs = <<>>
    /\ doj_pdfs = <<>>
    /\ foia_links = <<>>
    /\ http_log = <<>>
    /\ pdf_links = <<>>
    /\ dl_i = 1
    /\ dl_counts = NoCounts
    /\ dl_log = <<>>
    /\ dl_run = 0
    /\ dl_returned = <<>>

DlIdle ==
    /\ dl_pc = "idle"
    /\ urls_json = NoUrlFile
    /\ disk = <<>>
    /\ site = <<>>
    /\ flaky = {}
    /\ sr_url = <<>>
    /\ sr_attempt = 0
    /\ main_page = NoPage
    /\ subpages = <<>>
    /\ sub_links = <<>>
    /\ court_pdfs = <<>>
    /\ doj_pdfs = <<>>
    /\ foia_links = <<>>
    /\ http_log = <<>>
    /\ pdf_links = <<>>
    /\ dl_i = 1
    /\ dl_counts = NoCounts
    /\ dl_log = <<>>
    /\ dl_run = 0
    /\ dl_returned = <<>>

dlFiles == <<urls_json, site, flaky>>
srCall == <<sr_url, sr_attempt, main_page>>
scLists == <<subpages, sub_links>>
scResults == <<court_pdfs, doj_pdfs, foia_links>>
djLocals == <<all_pdf_links, visited_pages, ds_i, page_num>>
dlScrape == <<srCall, scLists, scResults, djLocals>>
dlRun == <<pdf_links, dl_i, dl_counts, dl_log, dl_run, dl_returned>>

\* The stages of main at which safe_read_html runs, each with the stage at
\* which it has returned.
ReturnsTo ==
    [court |-> "court_read", subpage |-> "subpage_read", paged |-> "paged_read",
     doj |-> "doj_read", data_set |-> "data_set_read", page |-> "page_read",
     foia |-> "fetched"]
Reading == DOMAIN ReturnsTo
HasRead == {ReturnsTo[stage] : stage \in Reading}

\* How a request for the URL may end.
AnswersOf(pages, unsteady, url) ==
    IF url \in unsteady THEN HttpAnswers
    ELSE IF url \in DOMAIN pages THEN {"200"}
    ELSE {"404"}

\* The links of the page a request answered 200 brings.
PageAt(pages, url) == IF url \in DOMAIN pages THEN pages[url] ELSE <<>>

\* Lines 45-46: safe_read_html is called for a URL.
SafeReadHtml(stage, url) ==
    /\ dl_pc' = stage
    /\ sr_url' = url
    /\ sr_attempt' = 0
    /\ main_page' = NoPage

\* A faulty variant: any response ends the loop.
ReadEndsMut(answer) == answer # "raise"
\* Lines 51-52: a response with status 200 ends the loop.
ReadEnds(answer) == answer = "200"

\* Lines 47-54: one pass of safe_read_html's loop.
SrAttempt ==
    /\ dl_pc \in Reading
    /\ sr_attempt < max_retries
    /\ \E answer \in AnswersOf(site, flaky, sr_url) :
          /\ http_log' = Append(http_log, [url |-> sr_url, answer |-> answer])
          /\ IF ReadEnds(answer)
             THEN /\ main_page' = PageOf(PageAt(site, sr_url))
                  /\ dl_pc' = ReturnsTo[dl_pc]
                  /\ UNCHANGED sr_attempt
             ELSE /\ sr_attempt' = sr_attempt + 1
                  /\ UNCHANGED <<main_page, dl_pc>>
    /\ UNCHANGED <<dlFiles, disk, sr_url, scLists, scResults, djLocals, dlRun>>

\* A faulty variant: the page is given up one request early.
SrGiveUpMut ==
    /\ dl_pc \in Reading
    /\ sr_attempt >= max_retries - 1
    /\ main_page' = NoPage
    /\ dl_pc' = ReturnsTo[dl_pc]
    /\ UNCHANGED <<dlFiles, disk, sr_url, sr_attempt, scLists, scResults, djLocals,
                   http_log, dlRun>>

\* Line 55: every pass failed.
SrGiveUp ==
    /\ dl_pc \in Reading
    /\ sr_attempt = max_retries
    /\ main_page' = NoPage
    /\ dl_pc' = ReturnsTo[dl_pc]
    /\ UNCHANGED <<dlFiles, disk, sr_url, sr_attempt, scLists, scResults, djLocals,
                   http_log, dlRun>>

\* Lines 197-199 and 205-209: scrape_court_records returns the distinct
\* links, and scrape_doj_disclosures starts with lists of its own and calls
\* safe_read_html for its main page.
CourtReturns(links) ==
    /\ court_pdfs' \in ListOfSet(links)
    /\ all_pdf_links' = <<>>
    /\ visited_pages' = {}
    /\ SafeReadHtml("doj", DOJ_URL)

\* Lines 150-168: the main page of the Court Records section has been read;
\* without it the function returns, with it the page's PDF links are
\* collected and its sub-pages listed.
CourtMain ==
    /\ dl_pc = "court_read"
    /\ IF ~main_page.loaded
       THEN /\ CourtReturns(all_pdf_links)
            /\ UNCHANGED subpages
       ELSE \E main_pdfs \in extract_pdf_links(main_page, BASE_URL),
               links \in extract_subpage_links(main_page, COURT_PATH, BASE_URL) :
               /\ visited_pages' = visited_pages \cup {COURT_URL}
               /\ all_pdf_links' = all_pdf_links \o main_pdfs
               /\ subpages' = SelectSeq(links, LAMBDA u : u \notin visited_pages')
               /\ dl_pc' = "subpages"
               /\ UNCHANGED <<srCall, court_pdfs>>
    /\ UNCHANGED <<dlFiles, disk, sub_links, doj_pdfs, foia_links, ds_i, page_num,
                   http_log, dlRun>>

\* Lines 170-177 and 197-199: the head of the loop over the sub-pages.  A
\* sub-page that was visited is passed over, any other is read; after the
\* last one the function returns.
CourtSubpages ==
    /\ dl_pc = "subpages"
    /\ IF subpages = <<>>
       THEN /\ CourtReturns(all_pdf_links)
            /\ UNCHANGED subpages
       ELSE /\ subpages' = Tail(subpages)
            /\ IF Head(subpages) \in visited_pages
               THEN UNCHANGED <<dl_pc, srCall, visited_pages>>
               ELSE /\ visited_pages' = visited_pages \cup {Head(subpages)}
                    /\ SafeReadHtml("subpage", Head(subpages))
            /\ UNCHANGED <<court_pdfs, all_pdf_links>>
    /\ UNCHANGED <<dlFiles, disk, sub_links, doj_pdfs, foia_links, ds_i, page_num,
                   http_log, dlRun>>

\* Lines 177-181: a sub-page has been read; the PDF links of a page that
\* loaded are collected and its links are gone through.
CourtSubpage ==
    /\ dl_pc = "subpage_read"
    /\ IF ~main_page.loaded
       THEN /\ dl_pc' = "subpages"
            /\ UNCHANGED <<all_pdf_links, sub_links>>
       ELSE \E subpage_pdfs \in extract_pdf_links(main_page, BASE_URL) :
               /\ all_pdf_links' = all_pdf_links \o subpage_pdfs
               /\ sub_links' = main_page.hrefs
               /\ dl_pc' = "links"
    /\ UNCHANGED <<dlFiles, disk, srCall, subpages, scResults, visited_pages, ds_i,
                   page_num, http_log, dlRun>>

\* Lines 184-192: the next link of the sub-page; a pagination link whose
\* page was not visited is read.
CourtLinks ==
    /\ dl_pc = "links"
    /\ IF sub_links = <<>>
       THEN /\ dl_pc' = "subpages"
            /\ UNCHANGED <<srCall, sub_links, visited_pages>>
       ELSE /\ sub_links' = Tail(sub_links)
            /\ IF /\ Contains(Head(sub_links), PAGE_MARK)
                  /\ PagedUrl(Head(sub_links)) \notin visited_pages
               THEN /\ visited_pages' = visited_pages \cup {PagedUrl(Head(sub_links))}
                    /\ SafeReadHtml("paged", PagedUrl(Head(sub_links)))
               ELSE UNCHANGED <<dl_pc, srCall, visited_pages>>
    /\ UNCHANGED <<dlFiles, disk, subpages, scResults, all_pdf_links, ds_i, page_num,
                   http_log, dlRun>>

\* Lines 192-196: a page of a sub-page has been read; the PDF links of a
\* page that loaded are collected.
CourtPaged ==
    /\ dl_pc = "paged_read"
    /\ IF ~main_page.loaded
       THEN UNCHANGED all_pdf_links
       ELSE \E paged_pdfs \in extract_pdf_links(main_page, BASE_URL) :
               all_pdf_links' = all_pdf_links \o paged_pdfs
    /\ dl_pc' = "links"
    /\ UNCHANGED <<dlFiles, disk, srCall, scLists, scResults, visited_pages, ds_i,
                   page_num, http_log, dlRun>>

\* Line 223: range(1, 13), the data sets looked at.
LAST_DATA_SET == 12

\* Lines 267-269 and 276-277: scrape_doj_disclosures returns the distinct
\* links, its lists are gone, and scrape_foia calls safe_read_html for its
\* main page.
DojReturns(links) ==
    /\ doj_pdfs' \in ListOfSet(links)
    /\ all_pdf_links' = <<>>
    /\ visited_pages' = {}
    /\ ds_i' = 1
    /\ page_num' = 1
    /\ SafeReadHtml("foia", FOIA_URL)

\* Lines 209-219: the main page of the DOJ Disclosures section has been
\* read; without it the function returns.
DojMain ==
    /\ dl_pc = "doj_read"
    /\ IF ~main_page.loaded
       THEN DojReturns(all_pdf_links)
       ELSE \E main_pdfs \in extract_pdf_links(main_page, BASE_URL) :
               /\ visited_pages' = visited_pages \cup {DOJ_URL}
               /\ all_pdf_links' = all_pdf_links \o main_pdfs
               /\ dl_pc' = "data_sets"
               /\ UNCHANGED <<srCall, doj_pdfs, ds_i, page_num>>
    /\ UNCHANGED <<dlFiles, disk, scLists, court_pdfs, foia_links, http_log, dlRun>>

\* Lines 223-227 and 267-269: the head of the loop over the data sets; the
\* first page of the next one is read, and after the last one the function
\* returns.
DojDataSets ==
    /\ dl_pc = "data_sets"
    /\ IF ds_i > LAST_DATA_SET
       THEN DojReturns(all_pdf_links)
       ELSE /\ SafeReadHtml("data_set", DataSetUrl(ds_i))
            /\ UNCHANGED <<doj_pdfs, djLocals>>
    /\ UNCHANGED <<dlFiles, disk, scLists, court_pdfs, foia_links, http_log, dlRun>>

\* Lines 228-241: the first page of a data set has been read; a data set
\* without a page or without PDF links is passed over.
DojDataSet ==
    /\ dl_pc = "data_set_read"
    /\ IF ~main_page.loaded
       THEN /\ ds_i' = ds_i + 1
            /\ dl_pc' = "data_sets"
            /\ UNCHANGED <<all_pdf_links, visited_pages, page_num>>
       ELSE \E ds_pdfs \in extract_pdf_links(main_page, BASE_URL) :
               /\ visited_pages' = visited_pages \cup {DataSetUrl(ds_i)}
               /\ IF ds_pdfs = <<>>
                  THEN /\ ds_i' = ds_i + 1
                       /\ dl_pc' = "data_sets"
                       /\ UNCHANGED <<all_pdf_links, page_num>>
                  ELSE /\ all_pdf_links' = all_pdf_links \o ds_pdfs
                       /\ page_num' = 1
                       /\ dl_pc' = "pages"
                       /\ UNCHANGED ds_i
    /\ UNCHANGED <<dlFiles, disk, srCall, scLists, scResults, http_log, dlRun>>

\* Lines 244-249: the head of the pagination loop.  A page URL that was
\* visited sends the loop back to its head with nothing changed; any other
\* is read.
DojPages ==
    /\ dl_pc = "pages"
    /\ IF PageUrl(ds_i, page_num) \in visited_pages
       THEN UNCHANGED <<dl_pc, srCall>>
       ELSE SafeReadHtml("page", PageUrl(ds_i, page_num))
    /\ UNCHANGED <<dlFiles, disk, scLists, scResults, djLocals, http_log, dlRun>>

\* Lines 250-265: a page of the data set has been read.  A page that did
\* not load, holds no PDF link or holds no new one ends the loop.
DojPage ==
    /\ dl_pc = "page_read"
    /\ IF ~main_page.loaded
       THEN /\ ds_i' = ds_i + 1
            /\ dl_pc' = "data_sets"
            /\ UNCHANGED <<all_pdf_links, visited_pages, page_num>>
       ELSE \E paged_pdfs \in extract_pdf_links(main_page, BASE_URL) :
               /\ visited_pages' = visited_pages \cup {PageUrl(ds_i, page_num)}
               /\ IF paged_pdfs = <<>> \/ NewPdfs(paged_pdfs, all_pdf_links) = <<>>
                  THEN /\ ds_i' = ds_i + 1
                       /\ dl_pc' = "data_sets"
                       /\ UNCHANGED <<all_pdf_links, page_num>>
                  ELSE /\ all_pdf_links' = all_pdf_links \o paged_pdfs
                       /\ page_num' = NextPage(page_num)
                       /\ dl_pc' = "pages"
                       /\ UNCHANGED ds_i
    /\ UNCHANGED <<dlFiles, disk, srCall, scLists, scResults, http_log, dlRun>>

\* Lines 279-288: scrape_foia returns the page's PDF links.
FoiaExtract ==
    /\ dl_pc = "fetched"
    /\ foia_links' \in extract_pdf_links(main_page, BASE_URL)
    /\ dl_pc' = "scraped"
    /\ UNCHANGED <<dlFiles, disk, srCall, scLists, court_pdfs, doj_pdfs, djLocals,
                   http_log, dlRun>>

\* Lines 405-409: there is no saved URL file.
DlNoUrlFile ==
    /\ dl_pc = "saved"
    /\ ~urls_json.exists
    /\ dl_pc' = "returned"
    /\ UNCHANGED <<dlFiles, disk, dlScrape, http_log, dlRun>>

\* Lines 351-378: main joins what the three scrapes returned and writes the
\* list to pdf_urls.json and then, with the local path of every URL, to
\* pdf_urls.csv; a URL without a local path ends main there.
DlSaveUrls ==
    /\ dl_pc = "scraped"
    /\ \E all_pdfs \in ListOfSet(court_pdfs \o doj_pdfs \o foia_links) :
          /\ urls_json' = [exists |-> TRUE, all |-> all_pdfs]
          /\ disk' = UrlFiles @@ disk
          /\ dl_pc' = IF \E k \in 1..Len(all_pdfs) :
                            url_to_local_path(all_pdfs[k]).raised
                      THEN "main_crashed"
                      ELSE "confirm"
    /\ UNCHANGED <<site, flaky, dlScrape, http_log, dlRun>>

\* Lines 380-391 and 291-302: main asks whether to go on; unless the answer
\* is no, download_all_pdfs starts on the list that was written.
DlConfirm ==
    /\ dl_pc = "confirm"
    /\ \E proceed \in BOOLEAN :
          IF ~proceed
          THEN /\ dl_pc' = "cancelled"
               /\ UNCHANGED dlRun
          ELSE /\ pdf_links' = urls_json.all
               /\ dl_i' = 1
               /\ dl_counts' = NoCounts
               /\ dl_log' = <<>>
               /\ dl_run' = dl_run + 1
               /\ dl_pc' = "loop"
               /\ UNCHANGED dl_returned
    /\ UNCHANGED <<dlFiles, disk, dlScrape, http_log>>

\* Lines 411-415 and 291-302: the script is run with --download-saved, as
\* the first run or after a run that ended in any way; the saved list is
\* loaded and download_all_pdfs starts.
DlLoadSaved ==
    /\ dl_pc \in {"saved", "done", "crashed", "main_crashed", "cancelled"}
    /\ urls_json.exists
    /\ dl_run < MaxRuns
    /\ pdf_links' = urls_json.all
    /\ dl_i' = 1
    /\ dl_counts' = NoCounts
    /\ dl_log' = <<>>
    /\ dl_run' = dl_run + 1
    /\ dl_pc' = "loop"
    /\ UNCHANGED <<dlFiles, disk, dlScrape, http_log, dl_returned>>

\* Lines 304-317: one URL of the list.
DlDownload ==
    /\ dl_pc = "loop"
    /\ dl_i <= Len(pdf_links)
    /\ \E answer \in HttpAnswers :
       \E result \in {download_pdf(pdf_links[dl_i], disk, FALSE, answer)} :
          LET url == pdf_links[dl_i]
              entry == [url |-> url, path |-> result.path,
                        requested |-> result.requested,
                        outcome |-> IF result.raised THEN "raised"
                                    ELSE IF ~result.success THEN "failed"
                                    ELSE IF result.skipped THEN "skipped"
                                    ELSE "new"]
          IN  /\ dl_log' = Append(dl_log, entry)
              /\ http_log' = IF result.requested
                             THEN Append(http_log, [url |-> url, answer |-> answer])
                             ELSE http_log
              /\ disk' = result.disk
              /\ IF result.raised
                 THEN /\ dl_pc' = "crashed"
                      /\ UNCHANGED <<dl_i, dl_counts>>
                 ELSE /\ dl_i' = dl_i + 1
                      /\ dl_counts' =
                            [dl_counts EXCEPT ![IF entry.outcome = "new" THEN "success"
                                                ELSE entry.outcome] = @ + 1]
                      /\ UNCHANGED dl_pc
    /\ UNCHANGED <<dlFiles, dlScrape, pdf_links, dl_run, dl_returned>>

\* Lines 319-326: the counts are returned.
DlSummary ==
    /\ dl_pc = "loop"
    /\ dl_i > Len(pdf_links)
    /\ dl_returned' = Append(dl_returned, dl_counts)
    /\ dl_pc' = "done"
    /\ UNCHANGED <<dlFiles, disk, dlScrape, http_log, pdf_links, dl_i, dl_counts,
                   dl_log, dl_run>>


(***************************************************************************)
(* sentiment_analysis.py : analyze_sentiment                               *)
(***************************************************************************)

\* Line 43: texts shorter than this are not analysed.
MIN_TEXT_LEN == 10

\* The texts analysed: letters and blanks.
TextAlphabet == {97, 32}
MaxTextLen == 11
Texts == UNION {[1..n -> TextAlphabet] : n \in 0..MaxTextLen}

\* The parameters max_chunks and chunk_size; the script passes 100 and 1000.
MaxChunks == 2
MaxChunkSize == 2

\* str.split(): the maximal runs of non-space characters, in order.
RECURSIVE SplitWords(_, _)
SplitWords(text, word) ==
    IF text = <<>> THEN (IF word = <<>> THEN <<>> ELSE <<word>>)
    ELSE IF IsSpace(Head(text))
         THEN (IF word = <<>> THEN <<>> ELSE <<word>>)
              \o SplitWords(Tail(text), <<>>)
    ELSE SplitWords(Tail(text), Append(word, Head(text)))

\* " ".join(words)
RECURSIVE JoinWords(_)
JoinWords(ws) ==
    IF ws = <<>> THEN <<>>
    ELSE IF Len(ws) = 1 THEN ws[1]
    ELSE ws[1] \o <<32>> \o JoinWords(Tail(ws))

\* A faulty variant: the chunks are spread over the text by its last start.
ChunkStepMut(word_count, n) == (word_count - 1) \div n

\* Line 68.
ChunkStep(word_count, n) == word_count \div n

\* Line 67.
NumChunks(word_count, most, size) == Min(most, word_count \div size)

\* Line 77: words[start : start + chunk_size], with the first word at 0.
ChunkWords(ws, start, size) == PySlice(ws, start, start + size)

NoScores == [scores |-> "none", word_count |-> 0]

SaInit ==
    /\ sa_pc = "called"
    /\ sa_text \in Texts
    /\ max_chunks \in 1..MaxChunks
    /\ chunk_size \in 1..MaxChunkSize
    /\ sa_words = <<>>
    /\ num_chunks = 0
    /\ sa_step = 0
    /\ sa_i = 0
    /\ sa_chunks = <<>>
    /\ sa_result = NoScores

SaIdle ==
    /\ sa_pc = "idle"
    /\ sa_text = <<>>
    /\ max_chunks = 0
    /\ chunk_size = 0
    /\ sa_words = <<>>
    /\ num_chunks = 0
    /\ sa_step = 0
    /\ sa_i = 0
    /\ sa_chunks = <<>>
    /\ sa_result = NoScores

saArgs == <<sa_text, max_chunks, chunk_size>>

\* Lines 43-50: an empty or short text scores zero.
SaShort ==
    /\ sa_pc = "called"
    /\ Len(sa_text) < MIN_TEXT_LEN
    /\ sa_pc' = "returned"
    /\ sa_result' = [scores |-> "zero", word_count |-> 0]
    /\ UNCHANGED <<saArgs, sa_words, num_chunks, sa_step, sa_i, sa_chunks>>

\* Lines 52-64: a text of at most chunk_size words is scored as a whole.
SaDirect ==
    /\ sa_pc = "called"
    /\ Len(sa_text) >= MIN_TEXT_LEN
    /\ Len(SplitWords(sa_text, <<>>)) <= chunk_size
    /\ sa_words' = SplitWords(sa_text, <<>>)
    /\ sa_pc' = "returned"
    /\ sa_result' = [scores |-> "whole", word_count |-> Len(sa_words')]
    /\ UNCHANGED <<saArgs, num_chunks, sa_step, sa_i, sa_chunks>>

\* Lines 52-73: a longer text is sampled.  Either division raises
\* ZeroDivisionError on a zero divisor.
SaPlan ==
    /\ sa_pc = "called"
    /\ Len(sa_text) >= MIN_TEXT_LEN
    /\ Len(SplitWords(sa_text, <<>>)) > chunk_size
    /\ sa_words' = SplitWords(sa_text, <<>>)
    /\ IF chunk_size = 0
       THEN /\ sa_pc' = "crashed"
            /\ UNCHANGED <<num_chunks, sa_step>>
       ELSE /\ num_chunks' = NumChunks(Len(sa_words'), max_chunks, chunk_size)
            /\ IF num_chunks' = 0
               THEN sa_pc' = "crashed" /\ UNCHANGED sa_step
               ELSE /\ sa_step' = ChunkStep(Len(sa_words'), num_chunks')
                    /\ sa_pc' = "chunks"
    /\ UNCHANGED <<saArgs, sa_i, sa_chunks, sa_result>>

\* Lines 75-83: one pass of the loop scores one chunk.
SaChunk ==
    /\ sa_pc = "chunks"
    /\ sa_i < num_chunks
    /\ sa_chunks' = Append(sa_chunks,
           [start |-> sa_i * sa_step,
            words |-> ChunkWords(sa_words, sa_i * sa_step, chunk_size),
            text |-> JoinWords(ChunkWords(sa_words, sa_i * sa_step,
                                          chunk_size))])
    /\ sa_i' = sa_i + 1
    /\ UNCHANGED <<saArgs, sa_pc, sa_words, num_chunks, sa_step, sa_result>>

\* Lines 85-91: the averages divide by the number of scores.
SaReturn ==
    /\ sa_pc = "chunks"
    /\ sa_i >= num_chunks
    /\ IF Len(sa_chunks) = 0
       THEN sa_pc' = "crashed" /\ UNCHANGED sa_result
       ELSE /\ sa_pc' = "returned"
            /\ sa_result' = [scores |-> "average",
                             word_count |-> Len(sa_words)]
    /\ UNCHANGED <<saArgs, sa_words, num_chunks, sa_step, sa_i, sa_chunks>>


(***************************************************************************)
(* download_epstein_pdfs.py : scrape_doj_disclosures                       *)
(***************************************************************************)

\* The data sets looked at: range(1, 13) in line 223, fewer here.
MaxDataSets == 2

\* Lines 45-55: what a safe_read_html call returns, None after max_retries
\* failed attempts or the page of the first request answered 200.
ReadResults == {NoPage} \cup {PageOf(hrefs) : hrefs \in Pages}

Fetched(url, new) == [url |-> url, new |-> new]

DjInit ==
    /\ dj_pc = "main"
    /\ all_pdf_links = <<>>
    /\ visited_pages = {}
    /\ ds_i = 1
    /\ page_num = 1
    /\ dj_fetches = <<>>

DjIdle ==
    /\ dj_pc = "idle"
    /\ all_pdf_links = <<>>
    /\ visited_pages = {}
    /\ ds_i = 1
    /\ page_num = 1
    /\ dj_fetches = <<>>

\* Lines 205-219: the main page is read; without it the function returns.
DjMain ==
    /\ dj_pc = "main"
    /\ \E doj_page \in ReadResults :
              /\ visited_pages' = visited_pages \cup {DOJ_URL}
              /\ IF ~doj_page.loaded
                 THEN /\ dj_pc' = "returned"
                      /\ dj_fetches' = Append(dj_fetches, Fetched(DOJ_URL, 0))
                      /\ UNCHANGED all_pdf_links
                 ELSE \E main_pdfs \in extract_pdf_links(doj_page, BASE_URL) :
                      /\ all_pdf_links' = all_pdf_links \o main_pdfs
                      /\ dj_fetches' =
                            Append(dj_fetches,
                                   Fetched(DOJ_URL,
                                           Len(NewPdfs(main_pdfs, all_pdf_links))))
                      /\ dj_pc' = "data_sets"
    /\ UNCHANGED <<ds_i, page_num>>

\* Lines 223-241: the first page of the next data set is read; a data set
\* without a page or without PDF links is passed over.
DjDataSet ==
    /\ dj_pc = "data_sets"
    /\ ds_i <= MaxDataSets
    /\ \E ds_page \in ReadResults :
          LET ds_url == DataSetUrl(ds_i)
          IN  IF ~ds_page.loaded
              THEN /\ ds_i' = ds_i + 1
                   /\ dj_fetches' = Append(dj_fetches, Fetched(ds_url, 0))
                   /\ UNCHANGED <<dj_pc, all_pdf_links, visited_pages, page_num>>
              ELSE \E ds_pdfs \in extract_pdf_links(ds_page, BASE_URL) :
                   /\ visited_pages' = visited_pages \cup {ds_url}
                   /\ dj_fetches' =
                         Append(dj_fetches,
                                Fetched(ds_url, Len(NewPdfs(ds_pdfs, all_pdf_links))))
                   /\ IF ds_pdfs = <<>>
                      THEN /\ ds_i' = ds_i + 1
                           /\ UNCHANGED <<dj_pc, all_pdf_links, page_num>>
                      ELSE /\ all_pdf_links' = all_pdf_links \o ds_pdfs
                           /\ page_num' = 1
                           /\ dj_pc' = "pages"
                           /\ UNCHANGED ds_i

\* Lines 244-265: one pass of the pagination loop.  A page URL that was
\* visited before sends the loop back to its head with nothing changed; a
\* page that does not load, holds no PDF link or holds no new one ends the
\* loop.
DjPage ==
    /\ dj_pc = "pages"
    /\ LET page_url == PageUrl(ds_i, page_num)
       IN  IF page_url \in visited_pages
           THEN UNCHANGED djVars
           ELSE \E paged \in ReadResults :
                    IF ~paged.loaded
                    THEN /\ dj_pc' = "data_sets"
                         /\ ds_i' = ds_i + 1
                         /\ dj_fetches' = Append(dj_fetches, Fetched(page_url, 0))
                         /\ UNCHANGED <<all_pdf_links, visited_pages, page_num>>
                    ELSE \E paged_pdfs \in extract_pdf_links(paged, BASE_URL) :
                         LET new_pdfs == NewPdfs(paged_pdfs, all_pdf_links)
                         IN  /\ visited_pages' = visited_pages \cup {page_url}
                             /\ dj_fetches' =
                                   Append(dj_fetches, Fetched(page_url, Len(new_pdfs)))
                             /\ IF paged_pdfs = <<>> \/ new_pdfs = <<>>
                                THEN /\ dj_pc' = "data_sets"
                                     /\ ds_i' = ds_i + 1
                                     /\ UNCHANGED <<all_pdf_links, page_num>>
                                ELSE /\ all_pdf_links' = all_pdf_links \o paged_pdfs
                                     /\ page_num' = NextPage(page_num)
                                     /\ UNCHANGED <<dj_pc, ds_i>>

\* Lines 267-269: after the last data set the distinct links are returned.
DjReturn ==
    /\ dj_pc = "data_sets"
    /\ ds_i > MaxDataSets
    /\ all_pdf_links' \in ListOfSet(all_pdf_links)
    /\ dj_pc' = "returned"
    /\ UNCHANGED <<visited_pages, ds_i, page_num, dj_fetches>>


(***************************************************************************)
(* Specifications: one per script.  The variables of the scripts that do   *)
(* not run keep their idle values.                                         *)
(***************************************************************************)

NetNext ==
    \/ NetCount /\ UNCHANGED <<chkVars, xnVars, preVars, geoVars, srvVars, dlVars, saVars, djVars>>
    \/ NetEdges /\ UNCHANGED <<chkVars, xnVars, preVars, geoVars, srvVars, dlVars, saVars, djVars>>
    \/ NetFilter /\ UNCHANGED <<chkVars, xnVars, preVars, geoVars, srvVars, dlVars, saVars, djVars>>

NetStart == NetInit /\ ChkIdle /\ XnIdle /\ PreIdle /\ GeoIdle /\ SrvIdle /\ DlIdle /\ SaIdle
             /\ DjIdle

SpecNet == NetStart /\ [][NetNext]_vars

ChkNext ==
    \/ ChkClassify /\ UNCHANGED <<netVars, xnVars, preVars, geoVars, srvVars, dlVars, saVars, djVars>>
    \/ ChkAnalyzeDir /\ UNCHANGED <<netVars, xnVars, preVars, geoVars, srvVars, dlVars, saVars, djVars>>
    \/ ChkReturn /\ UNCHANGED <<netVars, xnVars, preVars, geoVars, srvVars, dlVars, saVars, djVars>>

ChkStart == ChkInit /\ NetIdle /\ XnIdle /\ PreIdle /\ GeoIdle /\ SrvIdle /\ DlIdle /\ SaIdle
             /\ DjIdle

SpecCheck == ChkStart /\ [][ChkNext]_vars

XnNext ==
    \/ XnProcessFile /\ UNCHANGED <<netVars, chkVars, preVars, geoVars, srvVars, dlVars, saVars, djVars>>
    \/ XnNoFiles /\ UNCHANGED <<netVars, chkVars, preVars, geoVars, srvVars, dlVars, saVars, djVars>>
    \/ XnOpenPool /\ UNCHANGED <<netVars, chkVars, preVars, geoVars, srvVars, dlVars, saVars, djVars>>
    \/ XnSubmit /\ UNCHANGED <<netVars, chkVars, preVars, geoVars, srvVars, dlVars, saVars, djVars>>
    \/ \E w \in 1..num_workers :
          XnWorkerTake(w) /\ UNCHANGED <<netVars, chkVars, preVars, geoVars, srvVars, dlVars, saVars, djVars>>
    \/ \E w \in 1..num_workers :
          XnWorkerDone(w) /\ UNCHANGED <<netVars, chkVars, preVars, geoVars, srvVars, dlVars, saVars, djVars>>
    \/ XnCompleted /\ UNCHANGED <<netVars, chkVars, preVars, geoVars, srvVars, dlVars, saVars, djVars>>
    \/ XnSave /\ UNCHANGED <<netVars, chkVars, preVars, geoVars, srvVars, dlVars, saVars, djVars>>

XnStart == XnInit /\ NetIdle /\ ChkIdle /\ PreIdle /\ GeoIdle /\ SrvIdle /\ DlIdle /\ SaIdle
             /\ DjIdle

SpecExtract == XnStart /\ [][XnNext]_vars

PreNext ==
    \/ PreLoadAliases /\ UNCHANGED <<netVars, chkVars, xnVars, geoVars, srvVars, dlVars, saVars, djVars>>
    \/ PreGenerateIndex /\ UNCHANGED <<netVars, chkVars, xnVars, geoVars, srvVars, dlVars, saVars, djVars>>
    \/ PrePersonFiles /\ UNCHANGED <<netVars, chkVars, xnVars, geoVars, srvVars, dlVars, saVars, djVars>>
    \/ PreTimeline /\ UNCHANGED <<netVars, chkVars, xnVars, geoVars, srvVars, dlVars, saVars, djVars>>

PreStart == PreInit /\ NetIdle /\ ChkIdle /\ XnIdle /\ GeoIdle /\ SrvIdle /\ DlIdle /\ SaIdle
             /\ DjIdle

SpecIndex == PreStart /\ [][PreNext]_vars

GeoNext ==
    \/ GeoReturnEarly /\ UNCHANGED <<netVars, chkVars, xnVars, preVars, srvVars, dlVars, saVars, djVars>>
    \/ GeoLoad /\ UNCHANGED <<netVars, chkVars, xnVars, preVars, srvVars, dlVars, saVars, djVars>>
    \/ GeoCached /\ UNCHANGED <<netVars, chkVars, xnVars, preVars, srvVars, dlVars, saVars, djVars>>
    \/ GeoQuery /\ UNCHANGED <<netVars, chkVars, xnVars, preVars, srvVars, dlVars, saVars, djVars>>
    \/ GeoSave /\ UNCHANGED <<netVars, chkVars, xnVars, preVars, srvVars, dlVars, saVars, djVars>>
    \/ GeoOutputs /\ UNCHANGED <<netVars, chkVars, xnVars, preVars, srvVars, dlVars, saVars, djVars>>

GeoStart == GeoInit /\ NetIdle /\ ChkIdle /\ XnIdle /\ PreIdle /\ SrvIdle /\ DlIdle /\ SaIdle
             /\ DjIdle

SpecMap == GeoStart /\ [][GeoNext]_vars

\* The server reads alias_mapping.csv, which the preprocessor reads too.
SrvNext ==
    \/ SrvReceive /\ UNCHANGED <<netVars, chkVars, xnVars, preRun, geoVars, dlVars, saVars, djVars>>
    \/ SrvQuotesRejected /\ UNCHANGED <<netVars, chkVars, xnVars, preRun, geoVars, dlVars, saVars, djVars>>
    \/ SrvQuotes /\ UNCHANGED <<netVars, chkVars, xnVars, preRun, geoVars, dlVars, saVars, djVars>>
    \/ SrvSearch /\ UNCHANGED <<netVars, chkVars, xnVars, preRun, geoVars, dlVars, saVars, djVars>>
    \/ SrvStatic /\ UNCHANGED <<netVars, chkVars, xnVars, preRun, geoVars, dlVars, saVars, djVars>>
    \/ SrvDone /\ UNCHANGED <<netVars, chkVars, xnVars, preRun, geoVars, dlVars, saVars, djVars>>

SrvStart == SrvInit /\ NetIdle /\ ChkIdle /\ XnIdle /\ PreRunIdle /\ GeoIdle /\ DlIdle /\ SaIdle
             /\ DjIdle

SpecServe == SrvStart /\ [][SrvNext]_vars

\* The scrapes of main keep their lists in the variables of
\* scrape_doj_disclosures.
dlOthers == <<netVars, chkVars, xnVars, preVars, geoVars, srvVars, saVars, dj_pc,
              dj_fetches>>

DlNext ==
    \/ SrAttempt /\ UNCHANGED dlOthers
    \/ SrGiveUp /\ UNCHANGED dlOthers
    \/ CourtMain /\ UNCHANGED dlOthers
    \/ CourtSubpages /\ UNCHANGED dlOthers
    \/ CourtSubpage /\ UNCHANGED dlOthers
    \/ CourtLinks /\ UNCHANGED dlOthers
    \/ CourtPaged /\ UNCHANGED dlOthers
    \/ DojMain /\ UNCHANGED dlOthers
    \/ DojDataSets /\ UNCHANGED dlOthers
    \/ DojDataSet /\ UNCHANGED dlOthers
    \/ DojPages /\ UNCHANGED dlOthers
    \/ DojPage /\ UNCHANGED dlOthers
    \/ FoiaExtract /\ UNCHANGED dlOthers
    \/ DlSaveUrls /\ UNCHANGED dlOthers
    \/ DlConfirm /\ UNCHANGED dlOthers
    \/ DlNoUrlFile /\ UNCHANGED dlOthers
    \/ DlLoadSaved /\ UNCHANGED dlOthers
    \/ DlDownload /\ UNCHANGED dlOthers
    \/ DlSummary /\ UNCHANGED dlOthers

DlStart == DlInit /\ NetIdle /\ ChkIdle /\ XnIdle /\ PreIdle /\ GeoIdle /\ SrvIdle /\ SaIdle
             /\ DjIdle

SpecDownload == DlStart /\ [][DlNext]_vars

\* The scripts that fetch from the network: either the downloader runs or
\* the map step of the preprocessor does.
FetchNext == DlNext \/ GeoNext

FetchStart == DlStart \/ GeoStart

SpecFetch == FetchStart /\ [][FetchNext]_vars

SaNext ==
    \/ SaShort /\ UNCHANGED <<netVars, chkVars, xnVars, preVars, geoVars, srvVars, dlVars, djVars>>
    \/ SaDirect /\ UNCHANGED <<netVars, chkVars, xnVars, preVars, geoVars, srvVars, dlVars, djVars>>
    \/ SaPlan /\ UNCHANGED <<netVars, chkVars, xnVars, preVars, geoVars, srvVars, dlVars, djVars>>
    \/ SaChunk /\ UNCHANGED <<netVars, chkVars, xnVars, preVars, geoVars, srvVars, dlVars, djVars>>
    \/ SaReturn /\ UNCHANGED <<netVars, chkVars, xnVars, preVars, geoVars, srvVars, dlVars, djVars>>

SaStart ==
    SaInit /\ NetIdle /\ ChkIdle /\ XnIdle /\ PreIdle /\ GeoIdle /\ SrvIdle /\ DlIdle
           /\ DjIdle

SpecSentiment == SaStart /\ [][SaNext]_vars

djOthers == <<netVars, chkVars, xnVars, preVars, geoVars, srvVars, dlVars, saVars>>

DjNext ==
    \/ DjMain /\ UNCHANGED djOthers
    \/ DjDataSet /\ UNCHANGED djOthers
    \/ DjPage /\ UNCHANGED djOthers
    \/ DjReturn /\ UNCHANGED djOthers

DjStart ==
    DjInit /\ NetIdle /\ ChkIdle /\ XnIdle /\ PreIdle /\ GeoIdle /\ SrvIdle /\ DlIdle
           /\ SaIdle

\* scrape_doj_disclosures runs on: every request ends within its timeout
\* (line 50), so the step the function is at is taken at last.
SpecDoj == DjStart /\ [][DjNext]_vars /\ WF_vars(DjNext)

(***************************************************************************)
(* Properties of generate_network.py, checked under SpecNet.               *)
(***************************************************************************)

\* The input files that hold both persons.
FilesWithBoth(a, b) ==
    {i \in 1..Len(file_persons) : a \in file_persons[i] /\ b \in file_persons[i]}

\* C1: every pair recorded in edge_weights is stored with its smaller name
\* first (so no person is paired with itself and no unordered pair is recorded
\* twice), and its weight is the number of input files whose person set holds
\* both persons.
C1_EdgeWeightCountsFiles ==
    net_pc \in {"edges", "done"} =>
        \A pr \in DOMAIN edge_weights :
            /\ pr[1] < pr[2]
            /\ <<pr[2], pr[1]>> \notin DOMAIN edge_weights
            /\ edge_weights[pr] = Cardinality(FilesWithBoth(pr[1], pr[2]))

\* C1 witness: a recorded pair that co-occurs in all but one of the files in
\* which its first person appears.
C1_Witness ==
    /\ net_pc = "done"
    /\ \E pr \in DOMAIN edge_weights :
          /\ edge_weights[pr] = MIN_APPEARANCES
          /\ person_counts[pr[1]] > edge_weights[pr]

\* The input files that hold a person.
FilesWith(p) == {i \in 1..Len(file_persons) : p \in file_persons[i]}

\* The pairs the graph is meant to hold: both persons in at least
\* MIN_APPEARANCES files, together in at least MIN_EDGE_WEIGHT files.
GraphPairs ==
    {pr \in Persons \X Persons :
        /\ pr[1] < pr[2]
        /\ Cardinality(FilesWith(pr[1])) >= MIN_APPEARANCES
        /\ Cardinality(FilesWith(pr[2])) >= MIN_APPEARANCES
        /\ Cardinality(FilesWithBoth(pr[1], pr[2])) >= MIN_EDGE_WEIGHT}

\* C19: a person in fewer than MIN_APPEARANCES files is an endpoint of no
\* counted pair; the graph that is built has exactly the counted pairs of
\* weight MIN_EDGE_WEIGHT or more as its edges and exactly their endpoints as
\* its nodes, each node carrying the number of files its person appears in.
C19_GraphHoldsFrequentPairs ==
    /\ net_pc \in {"edges", "done", "crashed"} =>
          \A pr \in DOMAIN edge_weights :
              /\ Cardinality(FilesWith(pr[1])) >= MIN_APPEARANCES
              /\ Cardinality(FilesWith(pr[2])) >= MIN_APPEARANCES
    /\ net_pc = "done" =>
          /\ DOMAIN graph.edges = GraphPairs
          /\ DOMAIN graph.edges =
                 {pr \in DOMAIN edge_weights : edge_weights[pr] >= MIN_EDGE_WEIGHT}
          /\ DOMAIN graph.nodes =
                 {pr[1] : pr \in GraphPairs} \cup {pr[2] : pr \in GraphPairs}
          /\ \A p \in DOMAIN graph.nodes :
                 graph.nodes[p] = Cardinality(FilesWith(p))

\* C19 witness: a graph was built with two of the three persons, the third
\* person is in too few files to be counted in a pair.
C19_Witness ==
    /\ net_pc = "done"
    /\ Cardinality(DOMAIN graph.nodes) = 2
    /\ \E p \in Persons :
          /\ p \notin DOMAIN graph.nodes
          /\ Cardinality(FilesWith(p)) \in 1..(MIN_APPEARANCES - 1)
          /\ \E q \in DOMAIN graph.nodes : FilesWith(p) \cap FilesWith(q) # {}

\* C19, second case: a graph was built although one counted pair stayed
\* below MIN_EDGE_WEIGHT and is not in it.
C19_WitnessPairBelowWeight ==
    /\ net_pc = "done"
    /\ DOMAIN graph.edges # {}
    /\ \E pr \in DOMAIN edge_weights : pr \notin DOMAIN graph.edges

\* preprocess_browser_data.py, lines 94-132 and 245-250: the associates of a
\* person file are the persons that share a row of the edges CSV with it, the
\* 50 heaviest of them.  The model has fewer persons than that.
Associates(edge_rows, name) ==
    {r.to : r \in {e \in edge_rows : e.from = name}}
        \cup {r.from : r \in {e \in edge_rows : e.to = name}}

\* The persons with a row in the nodes CSV; the preprocessor writes one person
\* file for each (lines 783-794).
NodeNamesWritten == {r.name : r \in network_nodes_csv.rows}

\* C23: every person named as 'from' or 'to' in the written edges CSV has a
\* row in the written nodes CSV, so every associate of a person with a person
\* file has a person file too.
C23_EdgeEndpointsAreNodes ==
    (net_pc = "done" /\ network_edges_csv.written) =>
        /\ network_nodes_csv.written
        /\ \A r \in network_edges_csv.rows :
              r.from \in NodeNamesWritten /\ r.to \in NodeNamesWritten
        /\ \A name \in NodeNamesWritten :
              Associates(network_edges_csv.rows, name) \subseteq NodeNamesWritten

(***************************************************************************)
(* Properties of check_txt_files.py, checked under SpecCheck.              *)
(***************************************************************************)

\* C2: classify_file returns exactly one of "empty", "garbage" and
\* "real_text", with the empty test deciding first: the label is "empty"
\* exactly for the files is_empty accepts, "garbage" exactly for the other
\* files is_garbage accepts, and "real_text" for the rest.  In every row that
\* analyze_subfolders produces, the three counts add up to total_files, which
\* is at least 1.
C2_OneLabelRowsAddUp ==
    /\ chk_pc = "classified" =>
          /\ chk_label \in {"empty", "garbage", "real_text"}
          /\ (chk_label = "empty") <=> is_empty(chk_file)
          /\ (chk_label = "garbage") <=>
                 (~is_empty(chk_file) /\ is_garbage(chk_file))
    /\ \A i \in 1..Len(chk_results) :
          /\ chk_results[i].total_files >= 1
          /\ chk_results[i].real_text_count + chk_results[i].empty_count
                 + chk_results[i].garbage_count = chk_results[i].total_files

\* C2 witness: the scan ended with a row for a directory that holds a file
\* of each class, after a directory without text files that added no row.
C2_Witness ==
    /\ chk_pc = "report"
    /\ chk_dirs_seen = MaxDirs
    /\ Len(chk_results) = 1
    /\ chk_results[1].real_text_count >= 1
    /\ chk_results[1].empty_count >= 1
    /\ chk_results[1].garbage_count >= 1

\* C2 witness of the single-file case: a readable, non-empty file that both
\* tests accept (it is only whitespace, and mostly non-printable bytes) has
\* been classified.
C2_WitnessBothTests ==
    /\ chk_pc = "classified"
    /\ chk_file.readable
    /\ Len(chk_file.bytes) > 0
    /\ is_empty(chk_file)
    /\ is_garbage(chk_file)

\* C3: every file more than 30% of whose bytes are non-printable is
\* classified "garbage" by classify_file.
C3_NonPrintableIsGarbage ==
    (chk_pc = "classified" /\ chk_file.readable
        /\ NonPrintableOver30(chk_file.bytes))
        => chk_label = "garbage"

(***************************************************************************)
(* Properties of extract_names.py, checked under SpecExtract.              *)
(***************************************************************************)

\* The members of a list.
Elems(seq) == {seq[i] : i \in 1..Len(seq)}

\* The mentions of a file that extract_persons keeps: two words or more and
\* at least NAME_MIN_LEN characters, with the white space squashed.
Mentions(txt_file) ==
    {JoinSplit(Strip(e)) : e \in {x \in Elems(txt_file.ents) :
        Contains(Strip(x), <<32>>) /\ Len(Strip(x)) >= NAME_MIN_LEN}}

\* The canonical form of a mention: possessive removed, upper-cased.
Canonical(mention) == Upper(normalize_name(mention))

\* The canonical forms of the mentions of a file that survive the filter.
Surviving(txt_file) ==
    {Canonical(m) : m \in {x \in Mentions(txt_file) : KeepName(normalize_name(x))}}

\* A person list holds each surviving canonical form of its file exactly
\* once, and nothing else.
PersonListOf(persons, txt_file) ==
    /\ Elems(persons) = Surviving(txt_file)
    /\ Len(persons) = Cardinality(Surviving(txt_file))
    /\ persons # <<>>

\* C4: the person list persisted for a file has no duplicates: the mentions
\* that are equal after possessive removal and upper-casing collapse to one
\* entry, and a file without a surviving person (or one that cannot be read)
\* has no entry at all.  The same holds of what process_file returns.
C4_PersistedListsDistinct ==
    /\ xn_pc = "processed" =>
          /\ xn_result.some <=> (xn_file.readable /\ Surviving(xn_file) # {})
          /\ xn_result.some => PersonListOf(xn_result.persons, xn_file)
    /\ xn_pc = "saved" =>
          /\ DOMAIN extracted_names_json =
                 {f \in 1..Len(txt_files) :
                     txt_files[f].readable /\ Surviving(txt_files[f]) # {}}
          /\ \A f \in DOMAIN extracted_names_json :
                 PersonListOf(extracted_names_json[f], txt_files[f])

\* C4 witness: the map was saved; one file in it had two different mentions
\* with the same canonical form, and one readable file with a mention but no
\* surviving person is missing from it.
C4_Witness ==
    /\ xn_pc = "saved"
    /\ \E f \in DOMAIN extracted_names_json :
          \E m1, m2 \in Mentions(txt_files[f]) :
              /\ m1 # m2
              /\ Canonical(m1) = Canonical(m2)
              /\ Canonical(m1) \in Elems(extracted_names_json[f])
    /\ \E f \in 1..Len(txt_files) :
          /\ f \notin DOMAIN extracted_names_json
          /\ txt_files[f].readable
          /\ Mentions(txt_files[f]) # {}

\* C8: the pool gets exactly one task per file; when the map is saved,
\* completed equals the number of files and the map is the one the files
\* determine (an entry for each file with a surviving person, holding that
\* file's persons), whatever the order in which the tasks completed.
C8_PoolResultOrderFree ==
    /\ xn_pc = "submitting" =>
          /\ Len(futures) < Len(txt_files)
          /\ \A f \in 1..Len(txt_files) :
                 Cardinality({t \in 1..Len(futures) : futures[t].file = f}) =
                     IF f <= Len(futures) THEN 1 ELSE 0
    /\ xn_pc \in {"pool", "saved"} =>
          /\ Len(futures) = Len(txt_files)
          /\ \A f \in 1..Len(txt_files) :
                 Cardinality({t \in 1..Len(futures) : futures[t].file = f}) = 1
    /\ xn_pc = "pool" => completed <= Len(txt_files)
    /\ xn_pc = "saved" =>
          /\ completed = Len(txt_files)
          /\ DOMAIN extracted_names_json =
                 {f \in 1..Len(txt_files) :
                     \A result \in process_file(txt_files[f]) : result.some}
          /\ \A f \in DOMAIN extracted_names_json :
                 \A result \in process_file(txt_files[f]) :
                     Elems(extracted_names_json[f]) = Elems(result.persons)

\* C8 witness: two workers ran three files, one of them without a result, and
\* the results came back in an order other than the order of submission; one
\* file's persons were listed in another order than the file mentions them.
C8_Witness ==
    /\ xn_pc = "saved"
    /\ \E f \in DOMAIN extracted_names_json :
          extracted_names_json[f] #
              filter_persons(extract_persons(txt_files[f].ents, 1, <<>>), 1, <<>>)
    /\ num_workers = 2
    /\ completed = 3
    /\ Len(xn_order) = 2
    /\ xn_order[1] > xn_order[2]

\* C20: every name filter_persons returns is upper-case, has a space, is
\* NAME_MIN_LEN to NAME_MAX_LEN characters long, has no digit and none of the
\* excluded keywords in it, whatever the case of its letters; and it comes
\* from an input name that was not entirely upper-case.
C20_ReturnedNamesPassFilter ==
    (xn_pc = "processed" /\ xn_result.some) =>
        \A n \in Elems(xn_result.persons) :
            /\ n = Upper(n)
            /\ Contains(n, <<32>>)
            /\ Len(n) >= NAME_MIN_LEN
            /\ Len(n) <= NAME_MAX_LEN
            /\ ~HasDigit(n)
            /\ \A kw \in exclude_keywords : ~Contains(Lower(n), kw)
            /\ \E m \in Mentions(xn_file) :
                   ~IsUpper(m) /\ Upper(normalize_name(m)) = n

(***************************************************************************)
(* Properties of preprocess_browser_data.py: the alias maps, checked under *)
(* SpecIndex.                                                              *)
(***************************************************************************)

\* C5: the alias mapping is many-to-one, and the alias_map that
\* generate_person_index writes into the search index has the aliases of
\* alias_to_canonical and maps each of them to the canonical name that
\* alias_to_canonical gives it.
C5_AliasMapsAgree ==
    pre_pc = "indexed" =>
        /\ Keys(person_index.alias_map) = Keys(alias_to_canonical)
        /\ \A alias \in Keys(alias_to_canonical) :
               Lookup(person_index.alias_map, alias) =
                   Lookup(alias_to_canonical, alias)

\* The cells of year_counts.csv are numbers.
CountCellsAreNumbers ==
    \A i \in 1..Len(year_counts_csv) :
        ParseInt(year_counts_csv[i].year).ok /\ ParseInt(year_counts_csv[i].mentions).ok

\* C12: whichever input files are missing, main does not end with an
\* exception when the files that are there hold well-formed rows: a missing
\* alias or nodes file is reported and gives empty data, and the run goes
\* on through the index, the person files and the timeline.
C12_MissingInputNeverAborts ==
    /\ CountCellsAreNumbers => pre_pc # "crashed"
    /\ pre_pc \notin {"idle", "start"} =>
          /\ ~alias_csv.exists =>
                /\ "alias_mapping.csv" \in pre_warnings
                /\ alias_to_canonical = <<>>
                /\ canonical_aliases = <<>>
          /\ NODES_FILE \notin input_files =>
                /\ NODES_FILE \in pre_warnings
                /\ nodes = <<>>
    /\ pre_pc = "timeline" => TimelineOutputs \subseteq pre_outputs

\* C28: once the person files are written, every person file that holds its
\* own person's data has a quote_count equal to the total /api/quotes
\* returns for that person's name from the same all_quotes.csv and alias CSV.
C28_QuoteCountMatchesServer ==
    pre_pc \in {"persons", "timeline", "crashed"} =>
        \A i \in 1..Len(nodes) :
            LET file == person_files[safe_filename(nodes[i].name)]
            IN  file.name = nodes[i].name =>
                    file.quote_count =
                        QuotesPage(all_quotes_csv, alias_csv, nodes[i].name,
                                   0, 50).total

\* C25: distinct node names get distinct, non-empty file names, so the run
\* leaves as many person files as it counted and every person's file holds
\* that person's data.
C25_OneFilePerPerson ==
    pre_pc \in {"persons", "timeline", "crashed"} =>
        /\ person_count = Len(nodes)
        /\ Cardinality(DOMAIN person_files) = person_count
        /\ \A i \in 1..Len(nodes) :
              /\ safe_filename(nodes[i].name) # <<>>
              /\ person_files[safe_filename(nodes[i].name)].name = nodes[i].name

\* The sum of the counts of a years map.
RECURSIVE SumOfYears(_)
SumOfYears(years) ==
    IF years = <<>> THEN 0 ELSE Head(years).value + SumOfYears(Tail(years))

\* C27: person_gantt.json holds at most MAX_PERSONS_IN_GANTT persons; every
\* year key of a person lies in 1970..2025, its first_year is not after its
\* last_year, and its total is the sum of the counts of its years map.
C27_GanttTotalsAddUp ==
    person_gantt.written =>
        /\ Len(person_gantt.persons) <= MAX_PERSONS_IN_GANTT
        /\ \A i \in 1..Len(person_gantt.persons) :
              LET e == person_gantt.persons[i]
              IN  /\ \A k \in 1..Len(e.years) :
                        ParseInt(e.years[k].key).value
                            \in GANTT_FIRST_YEAR..GANTT_LAST_YEAR
                  /\ e.first_year <= e.last_year
                  /\ e.total = SumOfYears(e.years)

(***************************************************************************)
(* Properties of preprocess_browser_data.py: the geocode cache, checked    *)
(* under SpecMap.                                                          *)
(***************************************************************************)

\* C6: the geocode cache file is append-only across a run of
\* generate_map_data: every key the file held before the run is still in it,
\* with the value it had (coordinates or null), at every point of the run and
\* whatever the geocoder returns or raises.
C6_CacheAppendOnly ==
    cache_before.exists =>
        /\ cache_file.exists
        /\ \A k \in DOMAIN cache_before.data :
               /\ k \in DOMAIN cache_file.data
               /\ cache_file.data[k] = cache_before.data[k]

\* C6 witness: the run is over; the file held a failed lookup and the
\* coordinates of a place this run does not meet, the geocoder raised for
\* one location, and the file has gained keys.
C6_Witness ==
    /\ geo_pc = "done"
    /\ cache_before.exists
    /\ DOMAIN cache_before.data = {0, 1}
    /\ cache_before.data[0] = "old"
    /\ cache_before.data[1] = "None"
    /\ \E l \in 1..NumLocs :
          geo_world[l] \in {"raise1", "raise2"} /\ geo_queries[l].usa = 1
    /\ Cardinality(DOMAIN cache_file.data) > Cardinality(DOMAIN cache_before.data)

\* C7: no location whose lower-cased name is a key of the geocode cache,
\* be it cached as null, is sent to the geocoder: nothing is asked for a key
\* the cache file held before the run, and for any other key the geocoder is
\* asked at most once with the ", USA" suffix and at most once without it,
\* also when two locations share the key.
C7_CachedNeverQueried ==
    /\ \A l \in 1..NumLocs :
          /\ geo_queries[l].usa <= 1
          /\ geo_queries[l].plain <= geo_queries[l].usa
          /\ (cache_before.exists /\ loc_key[l] \in DOMAIN cache_before.data)
                 => (geo_queries[l].usa = 0 /\ geo_queries[l].plain = 0)
    /\ \A l1 \in 1..NumLocs : \A l2 \in (l1 + 1)..NumLocs :
          (loc_key[l1] = loc_key[l2]) =>
              /\ geo_queries[l1].usa + geo_queries[l2].usa <= 1
              /\ geo_queries[l1].plain + geo_queries[l2].plain <= 1

\* C7 witness: the run is over; the first location was cached as null and
\* was not asked for, the second was asked for twice.
C7_Witness ==
    /\ geo_pc = "done"
    /\ cache_before.exists
    /\ 1 \in DOMAIN cache_before.data
    /\ cache_before.data[1] = "None"
    /\ loc_key[1] = 1
    /\ geo_queries[1] = [usa |-> 0, plain |-> 0]
    /\ geo_queries[2] = [usa |-> 1, plain |-> 1]

\* The run was asked to skip geocoding: SKIP_GEOCODING, in lower case, is
\* "1", "true" or "yes".
SkipAsked ==
    Lower(SKIP_GEOCODING) \in {<<49>>, <<116, 114, 117, 101>>, <<121, 101, 115>>}

\* The locations the cache file held with coordinates before the run, most
\* frequent first.
CachedWithCoordinates ==
    SelectSeq(sorted_locs,
              LAMBDA l : /\ cache_before.exists
                         /\ loc_key[l] \in DOMAIN cache_before.data
                         /\ cache_before.data[loc_key[l]] # "None")

\* C18: when SKIP_GEOCODING is "1", "true" or "yes" in any letter case, the
\* map generator asks the geocoder nothing, leaves the cache file as it was,
\* and writes to locations.json exactly the locations the cache file holds
\* with coordinates, none that is cached as null or not cached.
C18_SkipUsesCacheOnly ==
    SkipAsked =>
        /\ \A l \in 1..NumLocs : geo_queries[l] = [usa |-> 0, plain |-> 0]
        /\ cache_file = cache_before
        /\ geo_pc # "loop"
        /\ geo_pc = "done" => geocoded_locations = CachedWithCoordinates

\* C18 witness: SKIP_GEOCODING is "TRUE" and the run is over; the first
\* location was cached with coordinates and is on the map, a key was cached
\* as null, and the second location, which the geocoder would have found,
\* was not cached and is not on the map.
C18_Witness ==
    /\ geo_pc = "done"
    /\ SKIP_GEOCODING = <<84, 82, 85, 69>>
    /\ cache_before.exists
    /\ DOMAIN cache_before.data = {0, 1}
    /\ cache_before.data[1] = "old"
    /\ cache_before.data[0] = "None"
    /\ loc_key[2] = 2
    /\ geo_world[2] = "usa"
    /\ geocoded_locations = <<1>>

(***************************************************************************)
(* Properties of serve.py, checked under SpecServe.                        *)
(***************************************************************************)

\* C9: across any sequence of requests the files the server reads stay as
\* they are and the only state a request changes is the quotes cache: the
\* quotes CSV is opened at most once, and once the cache is set it is never
\* assigned again, so that later requests are served from the same list
\* without the file being opened.
C9_QuotesCacheSetOnce ==
    /\ [](srv_opens <= 1)
    /\ [][ /\ UNCHANGED srvFiles
           /\ quotes_cache.loaded => UNCHANGED <<quotes_cache, srv_opens>>
         ]_vars

\* C9 witness: reading the CSV raised part-way during the first request,
\* and the second request for quotes was answered from the cache that was
\* left, without the file being opened again.
C9_Witness ==
    /\ srv_pc = "handled"
    /\ srv_handled = 1
    /\ srv_request.path = "/api/quotes"
    /\ srv_response.sent
    /\ srv_response.status = 200
    /\ srv_opens = 1
    /\ quotes_cache.loaded
    /\ quotes_cache.rows # quotes_csv.rows

\* The request being answered, as handle_quotes_api reads it.
ReqPerson == ParamOr(srv_request.person, <<>>)
ReqOffset == ParseInt(ParamOr(srv_request.offset, DEFAULT_OFFSET)).value
ReqLimit == ParseInt(ParamOr(srv_request.limit, DEFAULT_LIMIT)).value

\* The quotes of the CSV that match the person asked for, in CSV order.
PersonQuotes ==
    MatchingQuotes(quotes_csv.rows, SrvAliasMap(alias_csv),
                   Resolve(SrvAliasMap(alias_csv), srv_normalize_name(ReqPerson)))

\* The matching quotes of the person among the rows the server has cached.
CachedPersonQuotes ==
    MatchingQuotes(quotes_cache.rows, SrvAliasMap(alias_csv),
                   Resolve(SrvAliasMap(alias_csv), srv_normalize_name(ReqPerson)))

\* The quotes of the given number of pages asked for one after the other, at
\* offset, offset + limit, offset + 2 * limit, ...
RECURSIVE PagesFrom(_, _, _, _)
PagesFrom(rows, offset, limit, pages) ==
    IF pages = 0 THEN <<>>
    ELSE QuotesPage(rows, alias_csv, ReqPerson, offset, limit).quotes
            \o PagesFrom(rows, offset + limit, limit, pages - 1)

\* The rows of the quotes CSV, none when the file is missing.
QuotesCsvRows == IF quotes_csv.exists THEN quotes_csv.rows ELSE <<>>

\* C26: the quotes cache is either not set or holds every row of the quotes
\* CSV, and every answer of /api/quotes counts the person's quotes of the
\* whole CSV.
C26_CacheNoneOrComplete ==
    /\ quotes_cache.loaded =>
          quotes_cache.rows = (IF quotes_csv.exists THEN quotes_csv.rows ELSE <<>>)
    /\ ( /\ srv_pc = "handled"
         /\ srv_request.path = "/api/quotes"
         /\ srv_response.sent
         /\ srv_response.status = 200 )
       => srv_response.body.total = Len(PersonQuotes)

\* C29: a request to /api/quotes for a person who is, but for letter case and
\* surrounding whitespace, an alias of the alias CSV is answered with the
\* total and the quotes a request for the alias's canonical name gets with
\* the same offset and limit.
C29_AliasAnsweredAsCanonical ==
    ( /\ srv_pc = "handled"
      /\ srv_request.path = "/api/quotes"
      /\ srv_response.sent
      /\ srv_response.status = 200 )
    => \A i \in 1..Len(alias_csv.rows) :
          srv_normalize_name(ParamOr(srv_request.person, <<>>))
              = srv_normalize_name(alias_csv.rows[i].alias)
          => srv_response.body =
                QuotesPage(quotes_cache.rows, alias_csv,
                           alias_csv.rows[i].canonical, ReqOffset, ReqLimit)

\* C16 as stated: a request to /api/quotes with a person, an offset >= 0 and
\* a limit >= 0 is answered with elements offset .. offset + limit - 1 of the
\* person's matching quotes in CSV order, as far as they exist, and with
\* their number as total whatever the offset and the limit; the pages at
\* offsets 0, limit, 2 * limit, ... hold every matching quote exactly once.
\* It fails for limit 0, where every page is empty, and after a read of the
\* quotes CSV that raised part-way, where the answers are cut from the rows
\* read before the failure.
C16_QuotesOfCsvArePaged ==
    ( /\ srv_pc = "handled"
      /\ srv_request.path = "/api/quotes"
      /\ srv_response.sent
      /\ srv_response.status = 200
      /\ ReqOffset >= 0
      /\ ReqLimit >= 0 )
    => LET body == srv_response.body
           last == IF ReqOffset + ReqLimit < Len(PersonQuotes)
                   THEN ReqOffset + ReqLimit ELSE Len(PersonQuotes)
       IN  /\ body.total = Len(PersonQuotes)
           /\ body.quotes = SubSeq(PersonQuotes, ReqOffset + 1, last)
           /\ Len(body.quotes) <= ReqLimit
           /\ PagesFrom(quotes_cache.rows, 0, ReqLimit, Len(PersonQuotes) + 1)
                 = PersonQuotes

\* C16, amended: the rows the server has cached are the first rows of the
\* quotes CSV in CSV order; a request to /api/quotes with a person, an
\* offset >= 0 and a limit >= 0 is answered with elements offset ..
\* offset + limit - 1 of the person's matching quotes among the cached rows,
\* as far as they exist, and with their number as total whatever the offset
\* and the limit; with a limit of 1 or more the pages at offsets 0, limit,
\* 2 * limit, ... hold every one of these quotes exactly once and the pages
\* after them are empty; with limit 0 the page is empty.
C16_QuotesArePaged ==
    ( /\ srv_pc = "handled"
      /\ srv_request.path = "/api/quotes"
      /\ srv_response.sent
      /\ srv_response.status = 200
      /\ ReqOffset >= 0
      /\ ReqLimit >= 0 )
    => LET body == srv_response.body
           last == IF ReqOffset + ReqLimit < Len(CachedPersonQuotes)
                   THEN ReqOffset + ReqLimit ELSE Len(CachedPersonQuotes)
       IN  /\ \E n \in 0..Len(QuotesCsvRows) :
                 quotes_cache.rows = SubSeq(QuotesCsvRows, 1, n)
           /\ body.total = Len(CachedPersonQuotes)
           /\ body.quotes = SubSeq(CachedPersonQuotes, ReqOffset + 1, last)
           /\ Len(body.quotes) <= ReqLimit
           /\ ReqLimit >= 1 =>
                 PagesFrom(quotes_cache.rows, 0, ReqLimit,
                           Len(CachedPersonQuotes) + 1) = CachedPersonQuotes
           /\ ReqLimit = 0 => body.quotes = <<>>

\* C16 witness: the second page of one quote was answered for a person who
\* has two matching quotes, one of them under an alias.
C16_Witness ==
    /\ srv_pc = "handled"
    /\ srv_request.path = "/api/quotes"
    /\ srv_response.sent
    /\ srv_response.status = 200
    /\ quotes_cache.rows = quotes_csv.rows
    /\ ReqOffset = 1
    /\ ReqLimit = 1
    /\ srv_response.body.total = 2
    /\ Len(srv_response.body.quotes) = 1
    /\ quotes_csv.rows[1].speaker # quotes_csv.rows[2].speaker

\* The query of the request being answered, as handle_search_api reads it.
ReqQuery == Strip(Upper(ParamOr(srv_request.q, <<>>)))

\* The persons of the index whose name or one of whose aliases holds the
\* query, by their place in the index.
SearchHits ==
    {i \in 1..Len(index_file.persons) :
        \/ Contains(Upper(index_file.persons[i].name), ReqQuery)
        \/ \E a \in 1..Len(index_file.persons[i].aliases) :
              Contains(Upper(index_file.persons[i].aliases[a]), ReqQuery)}

\* C17: a request to /api/search with a limit >= 0 is answered with at most
\* limit results, each of them a person of the index whose upper-cased name
\* or one of whose aliases holds the upper-cased, trimmed query, in the order
\* of the index; an empty query is answered with an empty list.
C17_SearchHonoursLimit ==
    ( /\ srv_pc = "handled"
      /\ srv_request.path = "/api/search"
      /\ srv_response.sent
      /\ srv_response.status = 200
      /\ ReqLimit >= 0 )
    => LET results == srv_response.body
       IN  /\ Len(results) <= ReqLimit
           /\ ReqQuery = <<>> => results = <<>>
           /\ \E pick \in [1..Len(results) -> SearchHits] :
                 /\ \A i \in 1..Len(results) :
                        /\ results[i].name = index_file.persons[pick[i]].name
                        /\ results[i].mentions = index_file.persons[pick[i]].mentions
                 /\ \A i, j \in 1..Len(results) : i < j => pick[i] < pick[j]

\* C10: every GET request to /api/quotes or /api/search, whatever its
\* person, q, offset and limit parameters, is answered with a JSON body that
\* carries the header Access-Control-Allow-Origin: *.
C10_ApiAnswersJsonWithCors ==
    (srv_pc = "handled" /\ srv_request.path \in {"/api/quotes", "/api/search"})
        => (srv_response.sent /\ srv_response.json /\ srv_response.cors)

(***************************************************************************)
(* Properties of download_epstein_pdfs.py, checked under SpecDownload, and *)
(* of the network fetches of both scripts, checked under SpecFetch.        *)
(***************************************************************************)

\* The requests sent for a URL so far.
FetchesOf(url) == {k \in 1..Len(http_log) : http_log[k].url = url}

\* A download_pdf call is being made in this step.
DownloadStep ==
    /\ dl_pc = "loop"
    /\ dl_i <= Len(pdf_links)
    /\ Len(dl_log') = Len(dl_log) + 1

\* The answers to the requests of the safe_read_html call that runs or has
\* returned, in order.
CallAnswers ==
    LET calls == SelectSeq(http_log, LAMBDA r : r.url = sr_url)
    IN  [k \in 1..Len(calls) |-> calls[k].answer]

\* A listing page, like a PDF, is requested once at most, whether or not the
\* request failed.
ListingAndPdfFetchedOnce ==
    /\ Cardinality(FetchesOf(sr_url)) <= 1
    /\ dl_pc \in {"loop", "done", "crashed"} =>
          \A k \in 1..Len(dl_log) : dl_log[k].url = pdf_links[k]

\* The answer the geocoder has for the location the loop is at.
AnswerHere == geo_world[sorted_locs[geo_i]]

\* The geocoding loop is asking the geocoder for its location in this step.
GeocodeStep ==
    /\ geo_pc = "loop"
    /\ geo_i <= NumLocs
    /\ geo_queries' # geo_queries

\* Each geocode query of a location, with ", USA" or without, is sent once at
\* most, and none is sent after one that raised.
GeocodeQueriesSentOnce ==
    \A l \in DOMAIN geo_queries :
        /\ geo_queries[l].usa <= 1
        /\ geo_queries[l].plain <= 1
        /\ geo_world[l] = "raise1" => geo_queries[l].plain = 0

\* A lookup that failed prints a line for its location and the loop moves on.
GeocodeFailureLogged ==
    (GeocodeStep /\ failed_count' > failed_count) =>
        /\ Len(geo_log') = Len(geo_log) + 1
        /\ geo_log'[Len(geo_log')].line = "failed"
        /\ geo_i' = geo_i + 1

\* C11 as stated: no fetch is tried again and every failure is logged and
\* passed over; a listing page, like a PDF, is requested once at most,
\* whether or not the request failed; each geocode query of a location is
\* sent once at most, and a lookup that failed prints a line.  It fails for
\* the listing pages, which safe_read_html requests again, and for the
\* geocoder, whose failures are counted and not printed.
C11_NoFetchIsRepeated ==
    /\ [](ListingAndPdfFetchedOnce /\ GeocodeQueriesSentOnce)
    /\ [][GeocodeFailureLogged]_vars

\* What holds of a listing page at every moment: it has been requested at
\* most max_retries times, its requests are the last ones sent, every
\* request but the last one failed, and safe_read_html returns the page
\* exactly when the last request was answered 200, and None only after
\* max_retries failures.
ListingRetriedUntilAnswered ==
    dl_pc \in Reading \cup HasRead =>
        LET n == Len(CallAnswers)
        IN  /\ n <= max_retries
            /\ FetchesOf(sr_url) = (Len(http_log) - n + 1)..Len(http_log)
            /\ \A k \in 1..(n - 1) : CallAnswers[k] # "200"
            /\ dl_pc \in Reading =>
                  /\ n = sr_attempt
                  /\ \A k \in 1..n : CallAnswers[k] # "200"
            /\ dl_pc \in HasRead =>
                  /\ main_page.loaded <=> (n > 0 /\ CallAnswers[n] = "200")
                  /\ ~main_page.loaded => n = max_retries

\* What holds of every download_pdf call: it sends one request at most, for
\* the URL of its list item, and, unless it raises, the loop moves on to the
\* next item whether or not the request failed.
PdfRequestedOnce ==
    DownloadStep =>
        /\ Len(http_log') <= Len(http_log) + 1
        /\ http_log' # http_log =>
              /\ http_log'[Len(http_log')].url = pdf_links[dl_i]
              /\ dl_i' = dl_i + 1
              /\ dl_log'[Len(dl_log')].outcome \in {"new", "failed"}

\* What holds of the geocoder's queries at every moment: a location is asked
\* for with ", USA" once at most, and once more without the suffix only when
\* the first query came back empty; a query that raised was the location's
\* last; and a location that was asked for has its key in the cache, as null
\* when a query raised or neither query found it.
GeocodeAskedOncePerForm ==
    \A l \in DOMAIN geo_queries :
        /\ geo_queries[l].usa <= 1
        /\ geo_queries[l].plain <= geo_queries[l].usa
        /\ geo_queries[l].plain = 1 => geo_world[l] \in {"plain", "none", "raise2"}
        /\ geo_queries[l].usa = 1 =>
              /\ IsCached(geocode_cache, loc_key[l])
              /\ geo_world[l] \in {"none", "raise1", "raise2"}
                    => geocode_cache[loc_key[l]] = "None"

\* What holds of every lookup that fails: it is counted in failed_count and
\* the loop moves on to the next location; nothing is printed for it, the
\* progress line of every SAVE_EVERY-th lookup aside, which a lookup that
\* raised does not print either; and a lookup that raised leaves the cache
\* file as it is.
GeocodeFailureCounted ==
    (GeocodeStep /\ AnswerHere \in {"none", "raise1", "raise2"}) =>
        /\ failed_count' = failed_count + 1
        /\ geocoded_count' = geocoded_count
        /\ geo_i' = geo_i + 1
        /\ ( \/ AnswerHere \in {"raise1", "raise2"}
             \/ (geocoded_count' + failed_count') % SAVE_EVERY # 0 )
              => geo_log' = geo_log
        /\ AnswerHere \in {"raise1", "raise2"} => cache_file' = cache_file

\* C11, amended: a listing page is requested up to max_retries times, again
\* after every request that raised or was not answered 200 and never after
\* one that was, and is given up after the last failure; a PDF is requested
\* at most once per list item, and a failed download is not tried again; a
\* location is sent to the geocoder once with ", USA" and once more without
\* it only when the first query came back empty, a query that raised is not
\* sent again, and a failed lookup is cached as null and counted in
\* failed_count, with no line printed for it.
C11_OnlyListingsRetried ==
    /\ [](ListingRetriedUntilAnswered /\ GeocodeAskedOncePerForm)
    /\ [][PdfRequestedOnce /\ GeocodeFailureCounted]_vars

\* C11 witness: the FOIA listing page was read at the third request, after
\* one request that raised and one that was answered with an error status.
C11_Witness ==
    /\ dl_pc = "scraped"
    /\ sr_url = FOIA_URL
    /\ CallAnswers = <<"raise", "404", "200">>
    /\ main_page.loaded
    /\ foia_links # <<>>

\* C22: safe_read_html sends at most max_retries requests for its URL; the
\* first request answered 200 is the last one sent and its page is what is
\* returned; None is returned when all max_retries requests raised or were
\* answered with another status, and only then.
C22_ReadStopsAtFirst200 ==
    dl_pc \in Reading \cup HasRead =>
        LET F == FetchesOf(sr_url)
            Answered == {k \in F : http_log[k].answer = "200"}
        IN  /\ Cardinality(F) <= max_retries
            /\ \A k \in Answered : \A j \in F : j <= k
            /\ dl_pc \in Reading => Answered = {} /\ ~main_page.loaded
            /\ (dl_pc \in HasRead /\ Answered # {}) =>
                  main_page = PageOf(PageAt(site, sr_url))
            /\ (dl_pc \in HasRead /\ Answered = {}) =>
                  /\ main_page = NoPage
                  /\ Cardinality(F) = max_retries

\* C22 witness: None was returned for the FOIA page after a request that
\* raised, one answered with an error status, and one more that raised.
C22_Witness ==
    /\ dl_pc = "fetched"
    /\ main_page = NoPage
    /\ CallAnswers = <<"raise", "404", "raise">>

\* A path, given by its components below base_output_dir, leaves the
\* directory when a ".." component has no component before it to undo.
RECURSIVE ClimbsOut(_, _)
ClimbsOut(path, depth) ==
    IF path = <<>> THEN FALSE
    ELSE IF Head(path) = <<46, 46>>
         THEN depth = 0 \/ ClimbsOut(Tail(path), depth - 1)
    ELSE ClimbsOut(Tail(path), depth + 1)

InsideOutputDir(path) == ~ClimbsOut(path, 0)

\* C24: the local path of every download_pdf call lies inside
\* base_output_dir, and so does every directory and file that the calls have
\* made.
C24_PathStaysInsideOutputDir ==
    /\ \A k \in 1..Len(dl_log) : InsideOutputDir(dl_log[k].path)
    /\ \A path \in DOMAIN disk : InsideOutputDir(path)

\* C13: download_all_pdfs calls download_pdf for every URL of its list once
\* and in list order, whatever became of the URLs before it, and returns
\* counts that add up to the length of the list.
C13_EveryUrlAttemptedOnce ==
    /\ dl_pc \in {"loop", "done", "crashed"} =>
          /\ Len(dl_log) <= Len(pdf_links)
          /\ \A k \in 1..Len(dl_log) : dl_log[k].url = pdf_links[k]
    /\ dl_pc \in {"done", "crashed"} =>
          /\ Len(dl_log) = Len(pdf_links)
          /\ Len(dl_returned) = dl_run
          /\ LET counts == dl_returned[dl_run]
             IN  counts.success + counts.skipped + counts.failed = Len(pdf_links)

\* C14: any two URLs the downloader has handled whose URL paths differ were
\* given different local paths.
C14_DistinctPathsDistinctFiles ==
    \A i, j \in 1..Len(dl_log) :
        (/\ ~UrlPath(dl_log[i].url).raised
         /\ ~UrlPath(dl_log[j].url).raised
         /\ ~url_to_local_path(dl_log[i].url).raised
         /\ ~url_to_local_path(dl_log[j].url).raised
         /\ UrlPath(dl_log[i].url).path # UrlPath(dl_log[j].url).path) =>
            dl_log[i].path # dl_log[j].path

\* The downloads of this step leave what is on the disk as it is.
DiskKept == \A p \in DOMAIN disk : p \in DOMAIN disk' /\ disk'[p] = disk[p]

\* What holds of every download_pdf call for a local path that exists:
\* nothing is requested, nothing on the disk changes, and the call reports
\* the URL as skipped.
ExistingFileSkipped ==
    (/\ DownloadStep
     /\ ~url_to_local_path(pdf_links[dl_i]).raised
     /\ dl_log'[Len(dl_log')].path \in DOMAIN disk) =>
        /\ http_log' = http_log
        /\ disk' = disk
        /\ dl_log'[Len(dl_log')].outcome = "skipped"

\* What holds when the script has run twice over the same list: if the
\* first run came to its end and no URL failed in it, the second reports no
\* new download, no failure and every URL as skipped.
RerunSkipsAll ==
    (/\ dl_pc = "done"
     /\ dl_run = 2
     /\ Len(dl_returned) = 2
     /\ dl_returned[1].failed = 0) =>
        dl_returned[2] = [success |-> 0, skipped |-> Len(pdf_links), failed |-> 0]

\* C15: download_pdf sends no request for a local path that exists, leaves
\* the file as it is and reports the URL as skipped; no download changes a
\* file that was there; and a second run over a list whose first run had no
\* failure downloads nothing, fails on nothing and skips every URL.
C15_DownloadIsIdempotent ==
    /\ []RerunSkipsAll
    /\ [][ExistingFileSkipped]_vars
    /\ [][DownloadStep => DiskKept]_vars

\* C15 witness: the second run is over; the first downloaded both URLs of
\* the list, which map to different files, and the second skipped both.
C15_Witness ==
    /\ dl_pc = "done"
    /\ dl_run = 2
    /\ Len(pdf_links) = 2
    /\ dl_returned[1] = [success |-> 2, skipped |-> 0, failed |-> 0]
    /\ dl_returned[2] = [success |-> 0, skipped |-> 2, failed |-> 0]
    /\ Len(http_log) = 2

(***************************************************************************)
(* Properties of sentiment_analysis.py, checked under SpecSentiment.       *)
(***************************************************************************)

\* The text has at least MIN_TEXT_LEN characters and more than chunk_size
\* words.  With the script's chunk_size of 1000 the second implies the first.
SampledText ==
    /\ Len(sa_text) >= MIN_TEXT_LEN
    /\ Len(SplitWords(sa_text, <<>>)) > chunk_size

\* Chunk k holds exactly chunk_size words of the text, from its start on.
ChunkInsideText(k) ==
    /\ sa_chunks[k].start >= 0
    /\ sa_chunks[k].start + chunk_size <= Len(sa_words)
    /\ Len(sa_chunks[k].words) = chunk_size
    /\ sa_chunks[k].words = SubSeq(sa_words, sa_chunks[k].start + 1,
                                   sa_chunks[k].start + chunk_size)

\* C21: analyze_sentiment never divides by zero; a text shorter than 10
\* characters yields the all-zero scores with word_count 0; for a text with
\* more than chunk_size words, between 1 and max_chunks chunks are sampled,
\* the step between chunk starts is at least chunk_size, consecutive chunks do
\* not overlap, and every chunk lies inside the text and holds exactly
\* chunk_size words.
C21_ChunksFitTheText ==
    /\ sa_pc # "crashed"
    /\ (sa_pc = "returned" /\ Len(sa_text) < MIN_TEXT_LEN)
          => sa_result = [scores |-> "zero", word_count |-> 0]
    /\ (sa_pc = "returned" /\ SampledText)
          => /\ sa_result = [scores |-> "average",
                             word_count |-> Len(SplitWords(sa_text, <<>>))]
             /\ Len(sa_chunks) = num_chunks
             /\ Len(sa_chunks) \in 1..max_chunks
    /\ sa_pc \in {"chunks", "returned"} /\ SampledText
          => /\ sa_step >= chunk_size
             /\ \A k \in 1..Len(sa_chunks) : ChunkInsideText(k)
             /\ \A k \in 1..(Len(sa_chunks) - 1) :
                   sa_chunks[k].start + chunk_size <= sa_chunks[k + 1].start

\* A six-word text sampled in two chunks of two words: max_chunks caps the
\* number of chunks, and the second chunk is not the end of the text.
C21_Witness ==
    /\ sa_pc = "returned"
    /\ SampledText
    /\ chunk_size = 2
    /\ Len(sa_words) \div chunk_size > max_chunks
    /\ Len(sa_chunks) = 2
    /\ sa_chunks[2].start = 3

(***************************************************************************)
(* Properties of download_epstein_pdfs.py: scrape_doj_disclosures, checked *)
(* under SpecDoj.                                                          *)
(***************************************************************************)

\* The page numbers a fetch so far can have had.
PageNumbers == 1..(Len(dj_fetches) + 1)

\* The page read before page n of data set i: the data-set page itself before
\* page 1 (lines 226 and 246).
PreviousPage(i, n) == IF n = 1 THEN DataSetUrl(i) ELSE PageUrl(i, n - 1)

\* Every further page of a data set, ?page=1 included, is fetched right after
\* the page before it, and that page held a PDF link not yet collected.
EveryFurtherPageFollowsNewLinks ==
    \A k \in 1..Len(dj_fetches) : \A i \in 1..MaxDataSets : \A n \in PageNumbers :
        dj_fetches[k].url = PageUrl(i, n) =>
            /\ k >= 2
            /\ dj_fetches[k - 1].url = PreviousPage(i, n)
            /\ dj_fetches[k - 1].new >= 1

\* A page after page 1 of a data set is fetched right after the page before
\* it, and that page held a PDF link not yet collected.
FurtherPagesFollowNewLinks ==
    \A k \in 1..Len(dj_fetches) : \A i \in 1..MaxDataSets : \A n \in PageNumbers :
        (n >= 2 /\ dj_fetches[k].url = PageUrl(i, n)) =>
            /\ k >= 2
            /\ dj_fetches[k - 1].url = PageUrl(i, n - 1)
            /\ dj_fetches[k - 1].new >= 1

\* Page 1 of a data set is fetched right after the data-set page.
FirstPageFollowsDataSetPage ==
    \A k \in 1..Len(dj_fetches) : \A i \in 1..MaxDataSets :
        dj_fetches[k].url = PageUrl(i, 1) =>
            /\ k >= 2
            /\ dj_fetches[k - 1].url = DataSetUrl(i)

\* The pagination loop of a data set is entered at page 1 exactly when the
\* data-set page was read and listed a PDF link, collected before or not: its
\* links are all appended to the collected ones (lines 233-244).
PagingStartsOnAnyLink ==
    dj_pc = "data_sets" /\ dj_fetches' # dj_fetches
        => /\ (dj_pc' = "pages") = (Len(all_pdf_links') > Len(all_pdf_links))
           /\ dj_pc' = "pages" => page_num' = 1 /\ ds_i' = ds_i

\* No URL is fetched twice.
NoUrlFetchedTwice ==
    \A j, k \in 1..Len(dj_fetches) : j # k => dj_fetches[j].url # dj_fetches[k].url

\* At the head of the pagination loop the page URL has not been visited.
PageNotVisited ==
    dj_pc = "pages" => PageUrl(ds_i, page_num) \notin visited_pages

\* C30 as stated: scrape_doj_disclosures returns in the end; each further
\* page of a data set, ?page=1 included, is fetched only right after the page
\* before it, which held a PDF link not yet collected; no URL is fetched
\* twice; and the pagination loop never finds its page URL among the visited
\* ones.  It fails at ?page=1, which is fetched after a data-set page whose
\* PDF links were all collected already.
C30_EveryPageFollowsNewLinks ==
    /\ <>(dj_pc = "returned")
    /\ [](EveryFurtherPageFollowsNewLinks /\ NoUrlFetchedTwice /\ PageNotVisited)

\* C30, amended: scrape_doj_disclosures returns in the end whatever the site
\* answers (its pages hold links from a finite set); ?page=1 of a data set is
\* fetched right after the data-set page, exactly when that page listed a PDF
\* link, new or not; a page after the first is fetched only right after the
\* page before it, which held a PDF link not yet collected; no URL is fetched
\* twice; and the pagination loop never finds its page URL among the visited
\* ones.
C30_PaginationTerminates ==
    /\ <>(dj_pc = "returned")
    /\ [](FurtherPagesFollowNewLinks /\ FirstPageFollowsDataSetPage
            /\ NoUrlFetchedTwice /\ PageNotVisited)
    /\ [][PagingStartsOnAnyLink]_vars

\* C30 witness: the function has returned after fetching page 2 of the first
\* data set and page 1 of the second, the latter after a data-set page whose
\* PDF links had all been collected before.
C30_Witness ==
    /\ dj_pc = "returned"
    /\ \E j, k \in 2..Len(dj_fetches) :
          /\ dj_fetches[j].url = PageUrl(1, 2)
          /\ dj_fetches[k].url = PageUrl(2, 1)
          /\ dj_fetches[k - 1].url = DataSetUrl(2)
          /\ dj_fetches[k - 1].new = 0

====
